---- MODULE Spec2Model ----
(***************************************************************************)
(* Model of the fine-management backend: the student controller (CSV       *)
(* ingest, ledger appends, payment marking) and the expenditure controller *)
(* (expenditure records, financial summary).  Every request handler is cut *)
(* at its awaits: one action per storage operation, the synchronous code   *)
(* around it included.                                                     *)
(***************************************************************************)
EXTENDS Integers, Sequences, FiniteSets, TLC

(***************************************************************************)
(* JavaScript values.  Strings are TLA+ strings, numbers are integers,     *)
(* `undefined` is the value below.                                          *)
(***************************************************************************)
Undefined == "<undefined>"

Upper == "ABCDEFGHIJKLMNOPQRSTUVWXYZ"

Lower == "abcdefghijklmnopqrstuvwxyz"

Digits == "0123456789"

CharAt(s, i) == SubSeq(s, i, i)

IndexIn(alphabet, c) ==
    IF \E i \in 1..Len(alphabet) : CharAt(alphabet, i) = c
    THEN CHOOSE i \in 1..Len(alphabet) : CharAt(alphabet, i) = c
    ELSE 0

\* the characters lo..hi of s, each one found in `from` replaced by the
\* character at the same place in `to` (halving keeps the evaluation shallow)
RECURSIVE MapChars(_, _, _, _, _)
MapChars(s, from, to, lo, hi) ==
    IF lo > hi THEN ""
    ELSE IF lo = hi
         THEN LET k == IndexIn(from, CharAt(s, lo))
              IN  IF k = 0 THEN CharAt(s, lo) ELSE CharAt(to, k)
         ELSE LET mid == (lo + hi) \div 2
              IN  MapChars(s, from, to, lo, mid) \o MapChars(s, from, to, mid + 1, hi)

toLowerCase(s) == MapChars(s, Upper, Lower, 1, Len(s))

toUpperCase(s) == MapChars(s, Lower, Upper, 1, Len(s))

IsSpace(c) == c \in {" ", "\t", "\r", "\n"}

trim(s) ==
    LET K == { i \in 1..Len(s) : ~IsSpace(CharAt(s, i)) }
    IN  IF K = {} THEN ""
        ELSE SubSeq(s, CHOOSE i \in K : \A j \in K : i <= j,
                       CHOOSE i \in K : \A j \in K : j <= i)

\* String.prototype.includes
includes(s, sub) ==
    \E i \in 0..(Len(s) - Len(sub)) : SubSeq(s, i + 1, i + Len(sub)) = sub

\* s.split(sep) for a one-character separator
split(s, sep) ==
    LET P     == { i \in 1..Len(s) : CharAt(s, i) = sep }
        At(k) == IF k = 0 THEN 0
                 ELSE IF k > Cardinality(P) THEN Len(s) + 1
                 ELSE CHOOSE p \in P : Cardinality({ q \in P : q < p }) = k - 1
    IN  [k \in 1..(Cardinality(P) + 1) |-> SubSeq(s, At(k - 1) + 1, At(k) - 1)]

RECURSIVE join(_, _)
join(parts, sep) ==
    IF parts = << >> THEN ""
    ELSE IF Len(parts) = 1 THEN parts[1]
    ELSE parts[1] \o sep \o join(Tail(parts), sep)

\* fileContent.split(/\r?\n/): a carriage return right before a line feed
\* belongs to the separator.
SplitLines(content) ==
    LET raw == split(content, "\n")
    IN  [i \in 1..Len(raw) |->
            IF i < Len(raw) /\ raw[i] # "" /\ CharAt(raw[i], Len(raw[i])) = "\r"
            THEN SubSeq(raw[i], 1, Len(raw[i]) - 1)
            ELSE raw[i]]

RECURSIVE NonBlank(_)
NonBlank(ls) ==
    IF ls = << >> THEN << >>
    ELSE (IF trim(ls[1]) # "" THEN << ls[1] >> ELSE << >>) \o NonBlank(Tail(ls))

(***************************************************************************)
(* uploadStudentsCSV, lines 39-78: header detection and CSV parsing.       *)
(* A parsed row is the sequence of its <<key, cell>> pairs in the order    *)
(* Object.keys enumerates them (first insertion of each key).              *)
(***************************************************************************)
ScanWindow == 5

Min(a, b) == IF a < b THEN a ELSE b

IsHeaderLine(line) ==
    LET lineLower == toLowerCase(line)
    IN  includes(lineLower, "prn")
        /\ (includes(lineLower, "name") \/ includes(lineLower, "student"))

HeaderRowIndexLineZero(lines) == 0

HeaderRowIndexWholeFile(lines) ==
    LET W == { i \in 0..(Len(lines) - 1) : IsHeaderLine(lines[i + 1]) }
    IN  IF W = {} THEN 0 ELSE CHOOSE i \in W : \A j \in W : i <= j

\* 0-based index of the header row, 0 when no line of the window matches
HeaderRowIndex(lines) ==
    LET W == { i \in 0..(Min(ScanWindow, Len(lines)) - 1) : IsHeaderLine(lines[i + 1]) }
    IN  IF W = {} THEN 0 ELSE CHOOSE i \in W : \A j \in W : i <= j

\* header.replace(/[.\s]+/g, ' '), characters lo..hi: a run of dots and white
\* space leaves one space, at its first character
RECURSIVE CollapseRuns(_, _, _)
CollapseRuns(s, lo, hi) ==
    LET InRun(i) == CharAt(s, i) = "." \/ IsSpace(CharAt(s, i))
    IN  IF lo > hi THEN ""
        ELSE IF lo = hi
             THEN (IF ~InRun(lo) THEN CharAt(s, lo)
                   ELSE IF lo > 1 /\ InRun(lo - 1) THEN "" ELSE " ")
             ELSE LET mid == (lo + hi) \div 2
                  IN  CollapseRuns(s, lo, mid) \o CollapseRuns(s, mid + 1, hi)

mapHeaders(header) ==
    LET h == toLowerCase(trim(header))
    IN  trim(CollapseRuns(h, 1, Len(h)))

HasKey(row, key) == \E i \in 1..Len(row) : row[i][1] = key

\* row[key]
RowGet(row, key) ==
    IF HasKey(row, key)
    THEN row[CHOOSE i \in 1..Len(row) : row[i][1] = key][2]
    ELSE Undefined

\* row[key] = cell
RowSet(row, key, cell) ==
    IF HasKey(row, key)
    THEN [i \in 1..Len(row) |-> IF row[i][1] = key THEN << key, cell >> ELSE row[i]]
    ELSE Append(row, << key, cell >>)

RECURSIVE WriteRow(_, _, _, _)
WriteRow(headers, cells, i, row) ==
    IF i > Len(cells) THEN row
    ELSE WriteRow(headers, cells, i + 1,
                  RowSet(row,
                         IF i <= Len(headers) THEN headers[i] ELSE "_" \o ToString(i - 1),
                         cells[i]))

ParseCSV(fileContent) ==
    LET lines    == NonBlank(SplitLines(fileContent))
        kept     == SubSeq(lines, HeaderRowIndex(lines) + 1, Len(lines))
        rawHead  == IF kept = << >> THEN << >> ELSE split(kept[1], ",")
        headers  == [i \in 1..Len(rawHead) |-> mapHeaders(rawHead[i])]
    IN  [i \in 1..(Len(kept) - 1) |->
            WriteRow(headers, split(kept[i + 1], ","), 1, << >>)]

(***************************************************************************)
(* uploadStudentsCSV, lines 90-143: getValue and the resolved student data *)
(***************************************************************************)
RECURSIVE FirstPartial(_, _, _)
FirstPartial(row, key, i) ==
    IF i > Len(row) THEN 0
    ELSE IF includes(row[i][1], key) \/ includes(key, row[i][1]) THEN i
    ELSE FirstPartial(row, key, i + 1)

getValueFirstAliasOnly(row, possibleKeys) ==
    IF possibleKeys = << >> THEN Undefined
    ELSE LET key == possibleKeys[1]
             p   == FirstPartial(row, key, 1)
         IN  IF RowGet(row, key) # Undefined THEN trim(RowGet(row, key))
             ELSE IF p # 0 THEN trim(row[p][2])
             ELSE Undefined

RECURSIVE getValue(_, _)
getValue(row, possibleKeys) ==
    IF possibleKeys = << >> THEN Undefined
    ELSE LET key == possibleKeys[1]
             p   == FirstPartial(row, key, 1)
         IN  IF RowGet(row, key) # Undefined THEN trim(RowGet(row, key))
             ELSE IF p # 0 THEN trim(row[p][2])
             ELSE getValue(row, Tail(possibleKeys))

FalsyOnlyUndefined(v) == v = Undefined

\* !v for a string or undefined
Falsy(v) == v = Undefined \/ v = ""

\* v || undefined
OrUndefined(v) == IF Falsy(v) THEN Undefined ELSE v

OptionalFields ==
    {"academicYear", "semester", "year", "division", "rollNo", "department", "email", "phone"}

ResolvePrn(row) ==
    LET v == getValue(row, << "prn number", "prn", "prnnumber" >>)
    IN  IF v = Undefined THEN Undefined ELSE toUpperCase(v)

ResolveName(row) == getValue(row, << "student name", "name", "studentname" >>)

StudentData(row) ==
    LET division == getValue(row, << "division" >>)
    IN  [prn          |-> ResolvePrn(row),
         name         |-> ResolveName(row),
         academicYear |-> OrUndefined(getValue(row, << "academic year", "academicyear" >>)),
         semester     |-> OrUndefined(getValue(row, << "semester" >>)),
         year         |-> OrUndefined(getValue(row, << "year" >>)),
         division     |-> OrUndefined(division),
         rollNo       |-> OrUndefined(getValue(row, << "roll no", "rollno", "roll" >>)),
         department   |-> OrUndefined(division),
         email        |-> OrUndefined(getValue(row, << "email id", "email", "emailid" >>)),
         phone        |-> OrUndefined(getValue(row, << "mobile number", "mobile", "phone" >>))]

(***************************************************************************)
(* Request bodies carry JavaScript values of several types: a value is a   *)
(* record tagged with its type, the payload in a field named after it.     *)
(***************************************************************************)
Num(n) == [t |-> "num", num |-> n]

Str(x) == [t |-> "str", str |-> x]

Bool(b) == [t |-> "bool", bool |-> b]

Undef == [t |-> "undef"]

\* a date string of a request body, by the timestamp it denotes
IsoDate(at) == [t |-> "date", at |-> at]

\* new Date(v) of a date string
NewDate(v) == v.at

RECURSIVE DigitsValue(_, _)
DigitsValue(s, acc) ==
    IF s = "" THEN acc
    ELSE DigitsValue(Tail(s), 10 * acc + (IndexIn(Digits, CharAt(s, 1)) - 1))

AllDigits(s) == s # "" /\ \A i \in 1..Len(s) : IndexIn(Digits, CharAt(s, i)) # 0

NumericString(x) ==
    \/ x = ""
    \/ AllDigits(x)
    \/ x # "" /\ CharAt(x, 1) \in {"-", "+"} /\ AllDigits(Tail(x))

\* isNaN(v): undefined and a string that is no number are NaN; a number and
\* a boolean are not
isNaN(v) ==
    \/ v.t = "undef"
    \/ v.t = "str" /\ ~NumericString(trim(v.str))

\* Number(v) of a value that is not NaN: integers only; true is 1 and false
\* is 0; a string is trimmed, "" is 0, an optional sign and decimal digits
\* are a number.
Number(v) ==
    IF v.t = "num" THEN v.num
    ELSE IF v.t = "bool" THEN (IF v.bool THEN 1 ELSE 0)
    ELSE LET x == trim(v.str)
         IN  IF x = "" THEN 0
             ELSE IF AllDigits(x) THEN DigitsValue(x, 0)
             ELSE IF CharAt(x, 1) = "-" THEN 0 - DigitsValue(Tail(x), 0)
             ELSE DigitsValue(Tail(x), 0)

\* !v
Not(v) ==
    \/ v.t = "undef"
    \/ v.t = "str" /\ v.str = ""
    \/ v.t = "num" /\ v.num = 0
    \/ v.t = "bool" /\ ~v.bool

\* isNaN(amount) || Number(amount) <= 0
NotPositive(v) == IF isNaN(v) THEN TRUE ELSE Number(v) <= 0

(***************************************************************************)
(* Time.  A timestamp counts half days from 2024-12-30T00:00Z, so that a   *)
(* year boundary and two times of one day are within reach of the clock.   *)
(* Dates are UTC, as toISOString, $month and new Date('YYYY-MM-DD') are.   *)
(***************************************************************************)
TicksPerDay == 2

TwoDigits(n) == IF n < 10 THEN "0" \o ToString(n) ELSE ToString(n)

IsLeap(y) == y % 4 = 0 /\ (y % 100 # 0 \/ y % 400 = 0)

DaysInYear(y) == IF IsLeap(y) THEN 366 ELSE 365

DaysInMonth(y, m) ==
    IF m = 2 THEN (IF IsLeap(y) THEN 29 ELSE 28)
    ELSE IF m \in {4, 6, 9, 11} THEN 30 ELSE 31

\* the day number of January 1 of year y; 2025-01-01 is day 2
RECURSIVE JanFirst(_)
JanFirst(y) ==
    IF y = 2025 THEN 2
    ELSE IF y > 2025 THEN JanFirst(y - 1) + DaysInYear(y - 1)
    ELSE JanFirst(y + 1) - DaysInYear(y)

\* the day number of the first day of month m of year y
RECURSIVE MonthFirst(_, _)
MonthFirst(y, m) ==
    IF m = 1 THEN JanFirst(y) ELSE MonthFirst(y, m - 1) + DaysInMonth(y, m - 1)

\* the years the dates of the requests fall in
Years == 2023..2027

\* the first day of every month, computed once
FirstDays == [y \in Years |-> [m \in 1..12 |-> MonthFirst(y, m)]]

\* getUTCFullYear, $month and getUTCDate of a timestamp
YearOf(t) ==
    LET day == t \div TicksPerDay
    IN  CHOOSE y \in Years :
           FirstDays[y][1] <= day /\ day < FirstDays[y][1] + DaysInYear(y)

MonthOf(t) ==
    LET day == t \div TicksPerDay
        y   == YearOf(t)
    IN  CHOOSE m \in 1..12 :
           FirstDays[y][m] <= day /\ day < FirstDays[y][m] + DaysInMonth(y, m)

DayOf(t) == (t \div TicksPerDay) - FirstDays[YearOf(t)][MonthOf(t)] + 1

\* new Date(`${y}-${mm}-${dd}`): midnight UTC at the start of that day
DateOnly(y, m, d) == (FirstDays[y][m] + d - 1) * TicksPerDay

\* noon of that day
Noon(y, m, d) == DateOnly(y, m, d) + 1

\* toISOString().slice(0, 10).replace(/-/g, '')
DateStr(t) == ToString(YearOf(t)) \o TwoDigits(MonthOf(t)) \o TwoDigits(DayOf(t))

\* Math.random() as a fraction k / RandomScale, 0 <= k < RandomScale
RandomScale == 10000

RandomNumFromZero(k) == (k * 100000) \div RandomScale

\* Math.floor(10000 + Math.random() * 90000)
RandomNum(k) == 10000 + ((k * 90000) \div RandomScale)

ReceiptNumber(t, k) == "RCP-" \o DateStr(t) \o "-" \o ToString(RandomNum(k))

(***************************************************************************)
(* The requests the clients send                                           *)
(***************************************************************************)
MaxRows == 3

NoFile == "<no file>"

HeaderLine ==
    "PRN Number,Student Name,Academic Year,Semester,Year,Division,Roll No,Mobile Number,Email ID"

FullLine == "p1,Asha,2024-25,III,SE,A,11,9000000001,asha@zcoer.in"

NameOnlyLine == "P1, Ravi ,,,,,,,"

DivisionLine == "P2,Asha,,,,B,,,"

NoNameLine == "P2,,2024-25,III,SE,A,12,9000000002,b@zcoer.in"

NoPrnLine == ",Ravi,,,,A,,,"

SeqsUpTo(S, n) == UNION { [1..k -> S] : k \in 0..n }

FileOf(dataLines) == join(<< HeaderLine >> \o dataLines, "\n")

\* every batch of up to MaxRows of the five lines
BatchFiles ==
    { FileOf(ls) : ls \in SeqsUpTo({FullLine, NameOnlyLine, DivisionLine, NoNameLine, NoPrnLine},
                                   MaxRows) }
      \cup {NoFile}

\* the files of the concurrent uploads
RaceFiles ==
    { FileOf(<< FullLine >>), FileOf(<< NameOnlyLine, FullLine >>),
      FileOf(<< DivisionLine, NoNameLine >>), NoFile }

\* the files that make the roster of the ledger requests
RosterFiles == { FileOf(<< FullLine >>), FileOf(<< DivisionLine >>), NoFile }

MaxNoise == 6

\* the first n of the lines a spreadsheet export carries above the header
\* row: titles, none of them with both "prn" and "name" or "student"
Noise(n) ==
    [i \in 1..n |->
        IF i = 2 THEN "List of students,2024-25"
        ELSE IF i = 3 THEN "PRN wise report"
        ELSE "Zeal College page " \o ToString(i) \o ",IT"]

\* a file of title lines, HeaderLine and data lines
TitledFile(titles, sep, dataLines) == join(titles \o << HeaderLine >> \o dataLines, sep)

\* the spellings lines 110-118 accept for each column of HeaderLine, as a
\* header row may write them
Spellings ==
    << {"PRN Number", "PRN", "PrnNumber"}, {"Student Name", "Name", "StudentName"},
       {"Academic Year", "AcademicYear"}, {"Semester"}, {"Year"}, {"Division"},
       {"Roll No", "RollNo", "Roll"}, {"Mobile Number", "Mobile", "Phone"},
       {"Email ID", "Email", "EmailID"} >>

\* HeaderLine with its j-th column spelled a, and one data line
AliasFile(j, a, line) ==
    LET columns == split(HeaderLine, ",")
    IN  join(<< join([columns EXCEPT ![j] = a], ","), line >>, "\n")

ReadmeFile == "prn,name,department,email,phone\nP7,Meera,IT,m@zcoer.in,9000000007"

\* the files of the header detection and of the column resolution: 0 to
\* MaxNoise title lines, blank lines and CRLF line ends, a title that reads
\* like a header, every spelling of every column, the README's sample
ParseFiles ==
    { TitledFile(Noise(n), "\n", ls) :
         n \in 0..MaxNoise, ls \in { << FullLine >>, << NameOnlyLine, DivisionLine >> } }
    \cup { TitledFile(SubSeq(Noise(4), 1, 2) \o << "", "  " >> \o SubSeq(Noise(4), 3, 4),
                      "\r\n", << FullLine, "" >>),
           TitledFile(<< "Student PRN list" >>, "\n", << FullLine >>),
           ReadmeFile }
    \cup UNION { { AliasFile(j, a, line) : a \in Spellings[j], line \in { FullLine, NameOnlyLine } } :
                   j \in 1..Len(Spellings) }

\* results of line 82 for each file, and the student data of lines 110-143
\* for each of their rows, computed once
ParsedFile ==
    [f \in (BatchFiles \cup RaceFiles \cup RosterFiles \cup ParseFiles) \ {NoFile} |->
        ParseCSV(f)]

ParsedRows == UNION { { ParsedFile[f][i] : i \in 1..Len(ParsedFile[f]) } : f \in DOMAIN ParsedFile }

Resolved == [row \in ParsedRows |-> StudentData(row)]

PrnParams == {"p1", "P2", "P9"}

FineBodies ==
    { [amount |-> Num(50), reason |-> Undef, type |-> Undef, category |-> Undef, date |-> Undef],
      [amount |-> Str("30"), reason |-> Str(" Late "), type |-> Str("fee"),
       category |-> Str("Library"), date |-> IsoDate(0)],
      [amount |-> Undef, reason |-> Undef, type |-> Undef, category |-> Undef, date |-> Undef],
      [amount |-> Num(0), reason |-> Undef, type |-> Undef, category |-> Undef, date |-> Undef],
      [amount |-> Str("abc"), reason |-> Undef, type |-> Undef, category |-> Undef, date |-> Undef],
      [amount |-> Str("0"), reason |-> Undef, type |-> Undef, category |-> Undef, date |-> Undef],
      [amount |-> Num(0 - 5), reason |-> Undef, type |-> Undef, category |-> Undef, date |-> Undef],
      [amount |-> Bool(TRUE), reason |-> Undef, type |-> Undef, category |-> Undef, date |-> Undef] }

ExpenditureBodies ==
    { [amount |-> Num(20), description |-> Str("Chairs"), category |-> Undef, date |-> Undef],
      [amount |-> Str("100"), description |-> Str(" Projector "), category |-> Str("equipment"),
       date |-> IsoDate(0)],
      [amount |-> Num(0), description |-> Str("Chairs"), category |-> Undef, date |-> Undef],
      [amount |-> Num(20), description |-> Undef, category |-> Undef, date |-> Undef],
      [amount |-> Str("-1"), description |-> Str("Chairs"), category |-> Undef, date |-> Undef] }

(***************************************************************************)
(* The state                                                               *)
(***************************************************************************)
VARIABLES
    students,       \* the Student collection, documents in insertion order
    expenditures,   \* the Expenditure collection
    now,            \* the clock read by `new Date()`
    mail,           \* receipt notifications handed to sendPaymentReceiptEmail:
                    \* student, saved payment (its place and receipt), outcome
    req,            \* the requests in flight, one record per slot
    served          \* number of requests accepted so far, where it is capped

vars == << students, expenditures, now, mail, req, served >>

MaxConc == 2

MaxRequests == 3

Reqs == 1..MaxConc

Idle == [op |-> "idle", pc |-> "idle"]

NoFirst == [set |-> FALSE]

\* the ways requests arrive: interleaved at their awaits, a capped number of
\* them; or one at a time, any number of them
Concurrent == [limit |-> MaxConc, capped |-> TRUE]

OneAtATime == [limit |-> 1, capped |-> FALSE]

Active == { r \in Reqs : req[r].op # "idle" }

\* a request is accepted on the lowest free slot while fewer than m.limit
\* requests are in flight
Accept(r, m) ==
    /\ req[r].op = "idle"
    /\ \A q \in Reqs : q < r => req[q].op # "idle"
    /\ Cardinality(Active) < m.limit
    /\ IF m.capped
       THEN served < MaxRequests /\ served' = served + 1
       ELSE served' = served

FindOneOrFirst(db, prn) ==
    IF \E i \in 1..Len(db) : db[i].prn = prn
    THEN CHOOSE i \in 1..Len(db) : db[i].prn = prn /\ \A j \in 1..(i - 1) : db[j].prn # prn
    ELSE IF db = << >> THEN 0 ELSE 1

\* Student.findOne({ prn }): position of the document, 0 for null
FindOne(db, prn) ==
    IF \E i \in 1..Len(db) : db[i].prn = prn
    THEN CHOOSE i \in 1..Len(db) : db[i].prn = prn /\ \A j \in 1..(i - 1) : db[j].prn # prn
    ELSE 0

NoUniqueIndex(db, prn) == FALSE

\* the unique index on prn rejects a second document with the same prn
DuplicateKey(db, prn) == \E i \in 1..Len(db) : db[i].prn = prn

\* schema default of a new document: an empty fines array
DefaultFines == << >>

\* the schema's required paths, prn and name, checked by create and save
ValidationError(doc) == Falsy(doc.prn) \/ Falsy(doc.name)

Init ==
    /\ students = << >>
    /\ expenditures = << >>
    /\ now = 1
    /\ mail = {}
    /\ req = [r \in Reqs |-> Idle]
    /\ served = 0

(***************************************************************************)
(* uploadStudentsCSV                                                       *)
(***************************************************************************)
MissingFields == "Missing required fields (PRN Number or Student Name)"

DuplicateKeyError == "E11000 duplicate key error"

ValidationFailed == "Student validation failed"

AdvanceStopsAtInvalid(u) ==
    IF u.idx > Len(u.results)
    THEN [u EXCEPT !.pc = "done", !.status = 200, !.unlink = "issued"]
    ELSE LET d == u.data[u.idx]
         IN  IF Falsy(d.prn) \/ Falsy(d.name)
             THEN [u EXCEPT
                     !.idx = @ + 1,
                     !.errors = Append(@, [prn   |-> IF Falsy(d.prn) THEN "N/A" ELSE d.prn,
                                           error |-> MissingFields]),
                     !.errorCount = @ + 1,
                     !.pc = "done", !.status = 200, !.unlink = "issued"]
             ELSE [u EXCEPT !.pc = "find"]

\* lines 107-129 and 176-194: the synchronous part of the row loop.  Rows
\* without PRN or name are recorded and skipped; the loop stops at the first
\* row that awaits Student.findOne, or after the last row, where fs.unlink is
\* called and the response is sent.
RECURSIVE Advance(_)
Advance(u) ==
    IF u.idx > Len(u.results)
    THEN [u EXCEPT !.pc = "done", !.status = 200, !.unlink = "issued"]
    ELSE LET d == u.data[u.idx]
         IN  IF Falsy(d.prn) \/ Falsy(d.name)
             THEN Advance([u EXCEPT
                     !.idx = @ + 1,
                     !.errors = Append(@, [prn   |-> IF Falsy(d.prn) THEN "N/A" ELSE d.prn,
                                           error |-> MissingFields]),
                     !.errorCount = @ + 1])
             ELSE [u EXCEPT !.pc = "find"]

\* lines 32-37 and 110-143: the handler's locals; data[k] is the studentData
\* the loop resolves from row k, fileContent what line 40 read
NewUpload(results, first) ==
    [op |-> "upload", pc |-> "parse", status |-> 0, fileContent |-> "",
     results |-> results, idx |-> 1,
     data |-> [k \in 1..Len(results) |-> Resolved[results[k]]],
     successCount |-> 0, updateCount |-> 0, errorCount |-> 0, errors |-> << >>, doc |-> 0,
     docFines |-> 0, rerun |-> first.set, first |-> first, error |-> "", unlink |-> "none"]

\* the data of the 200 response
UploadData(u) ==
    [totalRecords    |-> Len(u.results),
     newStudents     |-> u.successCount,
     updatedStudents |-> u.updateCount,
     errors          |-> u.errorCount,
     errorDetails    |-> IF Len(u.errors) > 0 THEN u.errors ELSE << >>]

\* what the caller of a second run knows of the first: the roster it left
\* and its counts
FirstRun(u, db) ==
    [set |-> TRUE, students |-> db, successCount |-> u.successCount,
     updateCount |-> u.updateCount]

\* lines 27-30
NoUpload ==
    [op |-> "upload", pc |-> "done", status |-> 400, fileContent |-> "",
     results |-> << >>, idx |-> 1,
     data |-> << >>, successCount |-> 0, updateCount |-> 0, errorCount |-> 0,
     errors |-> << >>, doc |-> 0, docFines |-> 0, rerun |-> FALSE, first |-> NoFirst,
     error |-> "Please upload a CSV file", unlink |-> "none"]

\* lines 80-107: the parsed rows enter the row loop
EnterLoop(results, first) == Advance(NewUpload(results, first))

\* lines 25-107: no file is a 400; otherwise the file is read, the header row
\* found, the content parsed, and the row loop entered
StartUpload(r, m, files) ==
    /\ Accept(r, m)
    /\ \E f \in files :
          \E u \in { IF f = NoFile THEN NoUpload
                     ELSE [EnterLoop(ParsedFile[f], NoFirst) EXCEPT !.fileContent = f] } :
             req' = [req EXCEPT ![r] = u]
    /\ UNCHANGED << students, expenditures, now, mail >>

\* the same file is uploaded again as soon as its first run has answered,
\* no other request in between
RerunUpload(r) ==
    /\ req[r].op = "upload" /\ req[r].pc = "done" /\ req[r].status = 200
    /\ ~req[r].rerun
    /\ \A q \in Reqs \ {r} : req[q] = Idle
    /\ req' = [req EXCEPT ![r] =
                  [EnterLoop(req[r].results, FirstRun(req[r], students))
                      EXCEPT !.fileContent = req[r].fileContent]]
    /\ UNCHANGED << students, expenditures, now, mail, served >>

ParseRejectedAfterLoop(partial) ==
    [EnterLoop(partial, NoFirst) EXCEPT !.error = "csv parse error"]

\* lines 75-77 and 196-201: the parser's error rejects the promise awaited at
\* line 82; the outer catch calls fs.unlink and rethrows.  `partial` are the
\* rows the 'data' events pushed before the error.  A thrown error without a
\* status set is answered 500 by the error middleware.
ParseRejected(partial) ==
    [NoUpload EXCEPT !.status = 500, !.results = partial,
                     !.error = "csv parse error", !.unlink = "issued"]

\* the upload whose parsing fails, after any number of its rows
UploadParseError(r, m, files) ==
    /\ Accept(r, m)
    /\ \E f \in files \ {NoFile} :
          \E k \in 0..Len(ParsedFile[f]) :
             req' = [req EXCEPT ![r] =
                        [ParseRejected(SubSeq(ParsedFile[f], 1, k)) EXCEPT !.fileContent = f]]
    /\ UNCHANGED << students, expenditures, now, mail >>

\* line 40: fs.readFileSync throws before the try block is entered; no catch
\* of the handler sees the error
UploadReadError(r, m) ==
    /\ Accept(r, m)
    /\ req' = [req EXCEPT ![r] =
                  [NoUpload EXCEPT !.status = 500, !.error = "readFileSync failed"]]
    /\ UNCHANGED << students, expenditures, now, mail >>

\* lines 179-181 and 198-200: the callback of fs.unlink, after the response;
\* an error is written to the console
UnlinkCallback(r) ==
    /\ req[r].op = "upload" /\ req[r].unlink = "issued"
    /\ \E outcome \in {"removed", "failed, logged"} :
          req' = [req EXCEPT ![r].unlink = outcome]
    /\ UNCHANGED << students, expenditures, now, mail, served >>

\* line 148: Student.findOne reads the collection; the loaded document has
\* the docFines ledger entries stored at that moment
UploadFind(r) ==
    /\ req[r].op = "upload" /\ req[r].pc = "find"
    /\ LET u == req[r]
           d == Resolved[u.results[u.idx]]
           i == FindOne(students, d.prn)
       IN  req' = [req EXCEPT ![r] =
                      [u EXCEPT !.pc = IF i # 0 THEN "save" ELSE "create", !.doc = i,
                                !.docFines = IF i # 0 THEN Len(students[i].fines) ELSE 0]]
    /\ UNCHANGED << students, expenditures, now, mail, served >>

SetFieldsFirstWins(doc, d) ==
    [f \in DOMAIN doc |->
        IF f \in OptionalFields
        THEN (IF doc[f] = Undefined /\ d[f] # Undefined THEN d[f] ELSE doc[f])
        ELSE doc[f]]

SetFieldsResetFines(doc, d) ==
    [f \in DOMAIN doc |->
        IF f = "name" THEN d.name
        ELSE IF f = "fines" THEN DefaultFines
        ELSE IF f \in OptionalFields
             THEN (IF d[f] # Undefined THEN d[f] ELSE doc[f])
             ELSE doc[f]]

SetFieldsUnconditional(doc, d) ==
    [f \in DOMAIN doc |->
        IF f = "name" THEN d.name
        ELSE IF f \in OptionalFields THEN d[f]
        ELSE doc[f]]

SetFieldsDropsLastFine(doc, d) ==
    [f \in DOMAIN doc |->
        IF f = "name" THEN d.name
        ELSE IF f = "fines" THEN SubSeq(doc.fines, 1, Len(doc.fines) - 1)
        ELSE IF f \in OptionalFields
             THEN (IF d[f] # Undefined THEN d[f] ELSE doc[f])
             ELSE doc[f]]

\* lines 152-161: the paths assigned on the loaded document, written by
\* save() onto the stored document; fines is not among them
SetFields(doc, d) ==
    [f \in DOMAIN doc |->
        IF f = "name" THEN d.name
        ELSE IF f \in OptionalFields
             THEN (IF d[f] # Undefined THEN d[f] ELSE doc[f])
             ELSE doc[f]]

NewStudentNoDepartment(d) ==
    [prn |-> d.prn, name |-> d.name, academicYear |-> d.academicYear,
     semester |-> d.semester, year |-> d.year, division |-> d.division,
     rollNo |-> d.rollNo, department |-> Undefined, email |-> d.email,
     phone |-> d.phone, fines |-> DefaultFines]

\* line 165: the document Student.create inserts
NewStudent(d) ==
    [prn |-> d.prn, name |-> d.name, academicYear |-> d.academicYear,
     semester |-> d.semester, year |-> d.year, division |-> d.division,
     rollNo |-> d.rollNo, department |-> d.department, email |-> d.email,
     phone |-> d.phone, fines |-> DefaultFines]

\* line 171: row.prn || 'Unknown'
RowPrnOrUnknown(row) == IF Falsy(RowGet(row, "prn")) THEN "Unknown" ELSE RowGet(row, "prn")

\* lines 161-162 and the loop up to the next await
UploadSave(r) ==
    /\ req[r].op = "upload" /\ req[r].pc = "save"
    /\ LET u  == req[r]
           d  == u.data[u.idx]
           u2 == Advance([u EXCEPT !.updateCount = @ + 1, !.idx = @ + 1, !.doc = 0,
                                   !.docFines = 0])
       IN  /\ students' = [students EXCEPT ![u.doc] = SetFields(@, d)]
           /\ req' = [req EXCEPT ![r] = u2]
    /\ UNCHANGED << expenditures, now, mail, served >>

\* lines 165-175 and the loop up to the next await: the insert, or the
\* duplicate-key error of the unique index caught by the row's catch
UploadCreate(r) ==
    /\ req[r].op = "upload" /\ req[r].pc = "create"
    /\ LET u  == req[r]
           d  == u.data[u.idx]
           ok == ~DuplicateKey(students, d.prn) /\ ~ValidationError(NewStudent(d))
           u2 == IF ok
                 THEN Advance([u EXCEPT !.successCount = @ + 1, !.idx = @ + 1])
                 ELSE Advance([u EXCEPT
                         !.errors = Append(@, [prn   |-> RowPrnOrUnknown(u.results[u.idx]),
                                               error |-> IF DuplicateKey(students, d.prn)
                                                         THEN DuplicateKeyError
                                                         ELSE ValidationFailed]),
                         !.errorCount = @ + 1,
                         !.idx = @ + 1])
       IN  /\ students' = IF ok THEN Append(students, NewStudent(d)) ELSE students
           /\ req' = [req EXCEPT ![r] = u2]
    /\ UNCHANGED << expenditures, now, mail, served >>

UploadRowThrowsAborts(r) ==
    /\ req[r].op = "upload" /\ req[r].pc \in {"find", "save", "create"}
    /\ req' = [req EXCEPT ![r] = [@ EXCEPT !.pc = "done", !.status = 500,
                                            !.error = "MongoNetworkError",
                                            !.unlink = "issued"]]
    /\ UNCHANGED << students, expenditures, now, mail, served >>

UploadRowThrowsRollsBack(r) ==
    /\ req[r].op = "upload" /\ req[r].pc \in {"find", "save", "create"}
    /\ LET u == req[r]
       IN  req' = [req EXCEPT ![r] =
                      Advance([u EXCEPT
                         !.errors = Append(@, [prn   |-> RowPrnOrUnknown(u.results[u.idx]),
                                               error |-> "MongoNetworkError"]),
                         !.errorCount = @ + 1,
                         !.idx = @ + 1,
                         !.doc = 0,
                         !.docFines = 0])]
    /\ students' = SubSeq(students, 1, Len(students) - 1)
    /\ UNCHANGED << expenditures, now, mail, served >>

\* lines 148, 161, 165 and 169-175: the awaited driver operation rejects (the
\* database is unreachable, the write is refused); the row's catch records
\* the error and the loop goes on
UploadRowThrows(r) ==
    /\ req[r].op = "upload" /\ req[r].pc \in {"find", "save", "create"}
    /\ LET u == req[r]
       IN  req' = [req EXCEPT ![r] =
                      Advance([u EXCEPT
                         !.errors = Append(@, [prn   |-> RowPrnOrUnknown(u.results[u.idx]),
                                               error |-> "MongoNetworkError"]),
                         !.errorCount = @ + 1,
                         !.idx = @ + 1,
                         !.doc = 0,
                         !.docFines = 0])]
    /\ UNCHANGED << students, expenditures, now, mail, served >>

(***************************************************************************)
(* addFineToStudent                                                        *)
(***************************************************************************)
MaxFines == 2

\* requests in flight that will push onto the ledger of prn
PendingFines(prn) ==
    Cardinality({ q \in Reqs : req[q].op = "addFine" /\ req[q].pc # "done"
                               /\ toUpperCase(req[q].prn) = prn })

LedgerLen(prn) ==
    IF FindOne(students, prn) = 0 THEN 0 ELSE Len(students[FindOne(students, prn)].fines)

\* lines 262-279: the amount is validated before the collection is read
StartAddFine(r, m, prns, bodies) ==
    /\ Accept(r, m)
    /\ \E prn \in prns, body \in bodies :
          /\ LedgerLen(toUpperCase(prn)) + PendingFines(toUpperCase(prn)) < MaxFines
          /\ req' = [req EXCEPT ![r] =
                        IF Not(body.amount) \/ NotPositive(body.amount)
                        THEN [op |-> "addFine", pc |-> "done", status |-> 400,
                              prn |-> prn, body |-> body]
                        ELSE [op |-> "addFine", pc |-> "find", status |-> 0,
                              prn |-> prn, body |-> body]]
    /\ UNCHANGED << students, expenditures, now, mail >>

NewPaymentUnpaid(body, t, k) ==
    [amount        |-> Number(body.amount),
     reason        |-> IF body.reason.t = "str" /\ trim(body.reason.str) # ""
                       THEN trim(body.reason.str) ELSE "",
     type          |-> IF Not(body.type) THEN "fine" ELSE body.type.str,
     category      |-> IF Not(body.category) THEN "Others" ELSE body.category.str,
     receiptNumber |-> ReceiptNumber(t, k),
     date          |-> IF Not(body.date) THEN t ELSE NewDate(body.date),
     isPaid        |-> FALSE,
     paidDate      |-> 0]

\* lines 293-302
NewPayment(body, t, k) ==
    [amount        |-> Number(body.amount),
     reason        |-> IF body.reason.t = "str" /\ trim(body.reason.str) # ""
                       THEN trim(body.reason.str) ELSE "",
     type          |-> IF Not(body.type) THEN "fine" ELSE body.type.str,
     category      |-> IF Not(body.category) THEN "Others" ELSE body.category.str,
     receiptNumber |-> ReceiptNumber(t, k),
     date          |-> IF Not(body.date) THEN t ELSE NewDate(body.date),
     isPaid        |-> TRUE,
     paidDate      |-> t]

\* lines 279-304: Student.findOne resolves; not found is a 404, otherwise the
\* payment is built and pushed on the loaded document and save() is issued
AddFineFind(r, draws) ==
    /\ req[r].op = "addFine" /\ req[r].pc = "find"
    /\ LET a == req[r]
           i == FindOne(students, toUpperCase(a.prn))
       IN  IF i = 0
           THEN req' = [req EXCEPT ![r] = [a EXCEPT !.pc = "done", !.status = 404]]
           ELSE \E k \in draws :
                   req' = [req EXCEPT ![r] =
                              [op |-> "addFine", pc |-> "save", status |-> 0,
                               prn |-> a.prn, body |-> a.body, doc |-> i,
                               payment |-> NewPayment(a.body, now, k),
                               paymentCount |-> Len(students[i].fines) + 1]]
    /\ UNCHANGED << students, expenditures, now, mail, served >>

PushFineOverwrites(doc, payment) == [doc EXCEPT !.fines = << payment >>]

\* line 305: save() of a document whose fines array was pushed to appends the
\* pushed element to the stored array
PushFine(doc, payment) == [doc EXCEPT !.fines = Append(@, payment)]

\* lines 305-331: the write, the unawaited receipt mail and the 201 response
AddFineSave(r) ==
    /\ req[r].op = "addFine" /\ req[r].pc = "save"
    /\ LET a == req[r]
       IN  /\ students' = [students EXCEPT ![a.doc] = PushFine(@, a.payment)]
           /\ mail' = mail \cup { << students[a.doc].prn, Len(students[a.doc].fines) + 1,
                                      a.payment.receiptNumber, "pending" >> }
           /\ req' = [req EXCEPT ![r] = [a EXCEPT !.pc = "done", !.status = 201]]
    /\ UNCHANGED << expenditures, now, served >>

ReceiptEmailSettlesOrRollsBack ==
    \E e \in mail, outcome \in {"sent", "failed, logged"} :
       /\ e[4] = "pending"
       /\ mail' = (mail \ {e}) \cup { << e[1], e[2], e[3], outcome >> }
       /\ students' = IF outcome = "sent" THEN students
                      ELSE [i \in 1..Len(students) |->
                              [students[i] EXCEPT !.fines =
                                  SelectSeq(@, LAMBDA f : f.receiptNumber # e[3])]]
       /\ UNCHANGED << expenditures, now, req, served >>

\* lines 311-313: the promise of sendPaymentReceiptEmail settles, after the
\* response; a rejection is written to the console by the .catch handler
ReceiptEmailSettles ==
    \E e \in mail, outcome \in {"sent", "failed, logged"} :
       /\ e[4] = "pending"
       /\ mail' = (mail \ {e}) \cup { << e[1], e[2], e[3], outcome >> }
       /\ UNCHANGED << students, expenditures, now, req, served >>

(***************************************************************************)
(* markFineAsPaid and getStudentFines.  A fine's _id is its position in    *)
(* the stored array: entries are never removed or reordered in storage.    *)
(***************************************************************************)
StartMarkFineAsPaid(r, m, prns, fineIds) ==
    /\ Accept(r, m)
    /\ \E prn \in prns, fineId \in fineIds :
          req' = [req EXCEPT ![r] =
                     [op |-> "markPaid", pc |-> "find", status |-> 0,
                      prn |-> prn, fineId |-> fineId]]
    /\ UNCHANGED << students, expenditures, now, mail >>

\* lines 422-440: unknown student or fine is a 404; otherwise isPaid and
\* paidDate are set on the loaded subdocument and save() is issued
MarkFineAsPaidFind(r) ==
    /\ req[r].op = "markPaid" /\ req[r].pc = "find"
    /\ LET m == req[r]
           i == FindOne(students, toUpperCase(m.prn))
       IN  req' = [req EXCEPT ![r] =
                      IF i = 0 \/ m.fineId > Len(students[i].fines)
                      THEN [m EXCEPT !.pc = "done", !.status = 404]
                      ELSE [op |-> "markPaid", pc |-> "save", status |-> 0,
                            prn |-> m.prn, fineId |-> m.fineId, doc |-> i,
                            version |-> Len(students[i].fines), paidDate |-> now]]
    /\ UNCHANGED << students, expenditures, now, mail, served >>

MarkPaidReplace(fine, t) ==
    [fine EXCEPT !.isPaid = TRUE, !.paidDate = t, !.receiptNumber = ""]

\* lines 438-439 as save() writes them
MarkPaid(fine, t) == [fine EXCEPT !.isPaid = TRUE, !.paidDate = t]

\* line 440: a positional write carries the document version read; every
\* push bumps the version, so the write fails (VersionError, a 500) when the
\* array has grown since the read
MarkFineAsPaidSave(r) ==
    /\ req[r].op = "markPaid" /\ req[r].pc = "save"
    /\ LET m == req[r]
       IN  IF Len(students[m.doc].fines) = m.version
           THEN /\ students' = [students EXCEPT
                                   ![m.doc].fines[m.fineId] = MarkPaid(@, m.paidDate)]
                /\ req' = [req EXCEPT ![r] = [m EXCEPT !.pc = "done", !.status = 200]]
           ELSE /\ students' = students
                /\ req' = [req EXCEPT ![r] = [m EXCEPT !.pc = "done", !.status = 500]]
    /\ UNCHANGED << expenditures, now, mail, served >>

StartGetStudentFines(r, m, prns) ==
    /\ Accept(r, m)
    /\ \E prn \in prns :
          req' = [req EXCEPT ![r] =
                     [op |-> "getFines", pc |-> "find", status |-> 0, prn |-> prn,
                      fines |-> << >>]]
    /\ UNCHANGED << students, expenditures, now, mail >>

\* Array.prototype.sort with (a, b) => b.date - a.date: stable, newest first
RECURSIVE InsertByDate(_, _)
InsertByDate(sorted, e) ==
    IF sorted = << >> THEN << e >>
    ELSE IF sorted[1].date >= e.date THEN << sorted[1] >> \o InsertByDate(Tail(sorted), e)
    ELSE << e >> \o sorted

RECURSIVE SortNewestFirst(_)
SortNewestFirst(fines) ==
    IF fines = << >> THEN << >>
    ELSE InsertByDate(SortNewestFirst(SubSeq(fines, 1, Len(fines) - 1)), fines[Len(fines)])

\* lines 386-411: the loaded copy is sorted in memory and returned
GetStudentFinesFind(r) ==
    /\ req[r].op = "getFines" /\ req[r].pc = "find"
    /\ LET g == req[r]
           i == FindOne(students, toUpperCase(g.prn))
       IN  req' = [req EXCEPT ![r] =
                      IF i = 0 THEN [g EXCEPT !.pc = "done", !.status = 404]
                      ELSE [g EXCEPT !.pc = "done", !.status = 200,
                                     !.fines = SortNewestFirst(students[i].fines)]]
    /\ UNCHANGED << students, expenditures, now, mail, served >>

(***************************************************************************)
(* Expenditure controller: addExpenditure and getFinancialSummary          *)
(***************************************************************************)
MaxExp == 2

\* lines 18-43: both checks precede the write
StartAddExpenditure(r, m, bodies) ==
    /\ Accept(r, m)
    /\ Len(expenditures)
         + Cardinality({ q \in Reqs : req[q].op = "addExp" /\ req[q].pc # "done" }) < MaxExp
    /\ \E body \in bodies :
          req' = [req EXCEPT ![r] =
                     [op |-> "addExp", body |-> body,
                      pc |-> IF Not(body.amount) \/ Not(body.description)
                                \/ NotPositive(body.amount)
                             THEN "done" ELSE "create",
                      status |-> IF Not(body.amount) \/ Not(body.description)
                                    \/ NotPositive(body.amount)
                                 THEN 400 ELSE 0]]
    /\ UNCHANGED << students, expenditures, now, mail >>

\* lines 34-43
NewExpenditure(body, t) ==
    [amount      |-> Number(body.amount),
     description |-> trim(body.description.str),
     category    |-> IF Not(body.category) THEN "other" ELSE body.category.str,
     date        |-> IF Not(body.date) THEN t ELSE NewDate(body.date)]

AddExpenditureCreate(r) ==
    /\ req[r].op = "addExp" /\ req[r].pc = "create"
    /\ expenditures' = Append(expenditures, NewExpenditure(req[r].body, now))
    /\ req' = [req EXCEPT ![r] = [@ EXCEPT !.pc = "done", !.status = 201]]
    /\ UNCHANGED << students, now, mail, served >>

(***************************************************************************)
(* updateExpenditure and deleteExpenditure.  A stored expenditure is named *)
(* by its position in the collection; req.params.id is a position, or one  *)
(* past MaxExp for an id that names no record.  When a record is deleted   *)
(* the positions held by the requests in flight follow their records.      *)
(***************************************************************************)
ExpenditureIds == 1..(MaxExp + 1)

\* the bodies of PUT /api/expenditure/:id
UpdateBodies ==
    { [amount |-> Num(70), description |-> Undef, category |-> Str("travel"), date |-> Undef],
      [amount |-> Undef, description |-> Str(" Tables "), category |-> Undef, date |-> Undef],
      [amount |-> Num(0), description |-> Undef, category |-> Undef, date |-> Undef],
      [amount |-> Str("abc"), description |-> Undef, category |-> Undef, date |-> Undef],
      [amount |-> Bool(TRUE), description |-> Undef, category |-> Undef, date |-> Undef] }

\* lines 186-189: Expenditure.findById is issued
StartUpdateExpenditure(r, m, ids, bodies) ==
    /\ Accept(r, m)
    /\ \E id \in ids, body \in bodies :
          req' = [req EXCEPT ![r] = [op |-> "updateExp", pc |-> "find", status |-> 0,
                                    id |-> id, body |-> body]]
    /\ UNCHANGED << students, expenditures, now, mail >>

\* lines 189-211: findById resolves; no record is a 404, an amount that is
\* given and is not a positive number a 400; otherwise the fields are
\* assigned on the loaded document and save() is issued
UpdateExpenditureFind(r) ==
    /\ req[r].op = "updateExp" /\ req[r].pc = "find"
    /\ LET a     == req[r]
           found == a.id \in 1..Len(expenditures)
           bad   == a.body.amount # Undef /\ NotPositive(a.body.amount)
       IN  req' = [req EXCEPT ![r] =
                      IF ~found THEN [a EXCEPT !.pc = "done", !.status = 404]
                      ELSE IF bad THEN [a EXCEPT !.pc = "done", !.status = 400]
                      ELSE [a EXCEPT !.pc = "save"]]
    /\ UNCHANGED << students, expenditures, now, mail, served >>

\* lines 197-209: the paths assigned on the loaded document, which save()
\* writes onto the stored one
Assigned(doc, body) ==
    [doc EXCEPT
       !.amount      = IF body.amount # Undef THEN Number(body.amount) ELSE @,
       !.description = IF Not(body.description) THEN @ ELSE trim(body.description.str),
       !.category    = IF Not(body.category) THEN @ ELSE body.category.str,
       !.date        = IF Not(body.date) THEN @ ELSE NewDate(body.date)]

\* lines 211-217: the write and the 200 response; save() of a document that
\* has been deleted meanwhile (position 0) rejects and nothing is written
UpdateExpenditureSave(r) ==
    /\ req[r].op = "updateExp" /\ req[r].pc = "save"
    /\ LET a == req[r]
       IN  IF a.id = 0
           THEN /\ expenditures' = expenditures
                /\ req' = [req EXCEPT ![r] = [a EXCEPT !.pc = "done", !.status = 500]]
           ELSE /\ expenditures' = [expenditures EXCEPT ![a.id] = Assigned(@, a.body)]
                /\ req' = [req EXCEPT ![r] = [a EXCEPT !.pc = "done", !.status = 200]]
    /\ UNCHANGED << students, now, mail, served >>

\* lines 225-226: Expenditure.findByIdAndDelete is issued
StartDeleteExpenditure(r, m, ids) ==
    /\ Accept(r, m)
    /\ \E id \in ids :
          req' = [req EXCEPT ![r] = [op |-> "deleteExp", pc |-> "delete", status |-> 0,
                                    id |-> id]]
    /\ UNCHANGED << students, expenditures, now, mail >>

\* the position a request in flight holds after the record at position i is
\* gone: 0 for that record, one less for the records behind it
Renumbered(q, i) ==
    IF q.op \in {"updateExp", "deleteExp"} /\ q.pc # "done"
    THEN [q EXCEPT !.id = IF @ = i THEN 0 ELSE IF @ > i /\ @ <= MaxExp THEN @ - 1 ELSE @]
    ELSE q

\* lines 226-240: findByIdAndDelete removes the record in one operation and
\* resolves with it, or with null, which is a 404
DeleteExpenditure(r) ==
    /\ req[r].op = "deleteExp" /\ req[r].pc = "delete"
    /\ LET a == req[r]
           i == a.id
       IN  IF i \in 1..Len(expenditures)
           THEN /\ expenditures' = SubSeq(expenditures, 1, i - 1)
                                      \o SubSeq(expenditures, i + 1, Len(expenditures))
                /\ req' = [q \in Reqs |->
                              IF q = r THEN [a EXCEPT !.pc = "done", !.status = 200]
                              ELSE Renumbered(req[q], i)]
           ELSE /\ expenditures' = expenditures
                /\ req' = [req EXCEPT ![r] = [a EXCEPT !.pc = "done", !.status = 404]]
    /\ UNCHANGED << students, now, mail, served >>

RECURSIVE SumAmounts(_)
SumAmounts(entries) ==
    IF entries = << >> THEN 0 ELSE entries[1].amount + SumAmounts(Tail(entries))

\* lines 64-68: $unwind fines, $group with $sum of fines.amount; no group, 0
RECURSIVE TotalIncome(_)
TotalIncome(db) ==
    IF db = << >> THEN 0 ELSE SumAmounts(db[1].fines) + TotalIncome(Tail(db))

\* lines 71-74
TotalExpenditure(exps) == SumAmounts(exps)

\* line 81: documents with a first fine
StudentsWithFines(db) == Cardinality({ i \in 1..Len(db) : Len(db[i].fines) > 0 })

\* lines 82-85 and 103
RECURSIVE TotalFineCount(_)
TotalFineCount(db) ==
    IF db = << >> THEN 0 ELSE Len(db[1].fines) + TotalFineCount(Tail(db))

\* Expenditure.getSummaryByCategory: the total per category present
SummaryByCategory(exps) ==
    [c \in { exps[i].category : i \in 1..Len(exps) } |->
        SumAmounts(SelectSeq(exps, LAMBDA e : e.category = c))]

SummarySteps ==
    << "income", "expenditure", "students", "withFines", "fineCount", "expCount",
       "byCategory", "done" >>

StartGetFinancialSummary(r, m) ==
    /\ Accept(r, m)
    /\ req' = [req EXCEPT ![r] =
                  [op |-> "summary", pc |-> "income", status |-> 0, step |-> 1,
                   totalIncome |-> 0, totalExpenditure |-> 0, totalStudents |-> 0,
                   studentsWithFines |-> 0, totalFines |-> 0, totalExpenditures |-> 0,
                   expenditureByCategory |-> << >>]]
    /\ UNCHANGED << students, expenditures, now, mail >>

GetFinancialSummaryReadRefreshes(r) ==
    /\ req[r].op = "summary" /\ req[r].pc # "done"
    /\ LET g    == req[r]
           next == [g EXCEPT !.step = @ + 1, !.pc = SummarySteps[g.step + 1],
                             !.status = IF g.step = 7 THEN 200 ELSE 0]
       IN  req' = [req EXCEPT ![r] =
              CASE g.pc = "income"      -> [next EXCEPT !.totalIncome = TotalIncome(students)]
                [] g.pc = "expenditure" -> [next EXCEPT !.totalExpenditure = TotalExpenditure(expenditures)]
                [] g.pc = "students"    -> [next EXCEPT !.totalStudents = Len(students)]
                [] g.pc = "withFines"   -> [next EXCEPT !.studentsWithFines = StudentsWithFines(students)]
                [] g.pc = "fineCount"   -> [next EXCEPT !.totalFines = TotalFineCount(students)]
                [] g.pc = "expCount"    -> [next EXCEPT !.totalExpenditures = Len(expenditures)]
                [] g.pc = "byCategory"  -> [next EXCEPT
                                               !.expenditureByCategory = SummaryByCategory(expenditures),
                                               !.totalExpenditure = TotalExpenditure(expenditures)]]
    /\ UNCHANGED << students, expenditures, now, mail, served >>

\* lines 64-89: the seven reads, one await each; the response follows the last
GetFinancialSummaryRead(r) ==
    /\ req[r].op = "summary" /\ req[r].pc # "done"
    /\ LET g    == req[r]
           next == [g EXCEPT !.step = @ + 1, !.pc = SummarySteps[g.step + 1],
                             !.status = IF g.step = 7 THEN 200 ELSE 0]
       IN  req' = [req EXCEPT ![r] =
              CASE g.pc = "income"      -> [next EXCEPT !.totalIncome = TotalIncome(students)]
                [] g.pc = "expenditure" -> [next EXCEPT !.totalExpenditure = TotalExpenditure(expenditures)]
                [] g.pc = "students"    -> [next EXCEPT !.totalStudents = Len(students)]
                [] g.pc = "withFines"   -> [next EXCEPT !.studentsWithFines = StudentsWithFines(students)]
                [] g.pc = "fineCount"   -> [next EXCEPT !.totalFines = TotalFineCount(students)]
                [] g.pc = "expCount"    -> [next EXCEPT !.totalExpenditures = Len(expenditures)]
                [] g.pc = "byCategory"  -> [next EXCEPT !.expenditureByCategory = SummaryByCategory(expenditures)]]
    /\ UNCHANGED << students, expenditures, now, mail, served >>

FinancialStrict(g) ==
    [totalIncome      |-> g.totalIncome,
     totalExpenditure |-> g.totalExpenditure,
     balance          |-> g.totalIncome - g.totalExpenditure,
     status           |-> IF g.totalIncome - g.totalExpenditure > 0
                          THEN "surplus" ELSE "deficit"]

\* lines 94-99: the financial block of the response
Financial(g) ==
    [totalIncome      |-> g.totalIncome,
     totalExpenditure |-> g.totalExpenditure,
     balance          |-> g.totalIncome - g.totalExpenditure,
     status           |-> IF g.totalIncome - g.totalExpenditure >= 0
                          THEN "surplus" ELSE "deficit"]


(***************************************************************************)
(* Expenditure controller: getMonthlyReport                                *)
(***************************************************************************)
\* parseInt of a string: the decimal digits it starts with
RECURSIVE LeadingDigits(_)
LeadingDigits(x) ==
    IF x = "" \/ IndexIn(Digits, CharAt(x, 1)) = 0 THEN ""
    ELSE CharAt(x, 1) \o LeadingDigits(Tail(x))

\* line 250: parseInt(req.query.year) || new Date().getFullYear(); NaN and 0
\* are falsy alike
ReportYear(q, t) ==
    LET digits == IF q.t = "str" THEN LeadingDigits(trim(q.str)) ELSE ""
    IN  IF digits = "" \/ DigitsValue(digits, 0) = 0 THEN YearOf(t)
        ELSE DigitsValue(digits, 0)

YearQueries == { Str("2024"), Str("2025"), Undef }

\* $unwind: '$fines'
RECURSIVE Unwind(_)
Unwind(db) == IF db = << >> THEN << >> ELSE db[1].fines \o Unwind(Tail(db))

\* lines 255 and 268: $gte new Date(`${year}-01-01`), $lte new Date(`${year}-12-31`)
Matches(date, year) == DateOnly(year, 1, 1) <= date /\ date <= DateOnly(year, 12, 31)

\* lines 255-263 and 268-276: $match, $group by $month with $sum of the
\* amounts and the count; a month without a matched entry has no group
MonthlyGroups(entries, year) ==
    LET matched == SelectSeq(entries, LAMBDA e : Matches(e.date, year))
    IN  [m \in { MonthOf(matched[i].date) : i \in 1..Len(matched) } |->
            [sum   |-> SumAmounts(SelectSeq(matched, LAMBDA e : MonthOf(e.date) = m)),
             count |-> Len(SelectSeq(matched, LAMBDA e : MonthOf(e.date) = m))]]

months == << "Jan", "Feb", "Mar", "Apr", "May", "Jun", "Jul", "Aug", "Sep", "Oct", "Nov", "Dec" >>

ReportRowNoExpenditure(monthNumber, monthlyIncome, monthlyExpenditure) ==
    LET income == IF monthNumber \in DOMAIN monthlyIncome
                  THEN monthlyIncome[monthNumber].sum ELSE 0
    IN  [month            |-> months[monthNumber],
         monthNumber      |-> monthNumber,
         income           |-> income,
         expenditure      |-> IF monthNumber \in DOMAIN monthlyExpenditure
                              THEN monthlyExpenditure[monthNumber].sum ELSE 0,
         balance          |-> income,
         fineCount        |-> IF monthNumber \in DOMAIN monthlyIncome
                              THEN monthlyIncome[monthNumber].count ELSE 0,
         expenditureCount |-> IF monthNumber \in DOMAIN monthlyExpenditure
                              THEN monthlyExpenditure[monthNumber].count ELSE 0]

\* lines 281-296: the row of one month
ReportRow(monthNumber, monthlyIncome, monthlyExpenditure) ==
    LET income      == IF monthNumber \in DOMAIN monthlyIncome
                       THEN monthlyIncome[monthNumber].sum ELSE 0
        expenditure == IF monthNumber \in DOMAIN monthlyExpenditure
                       THEN monthlyExpenditure[monthNumber].sum ELSE 0
    IN  [month            |-> months[monthNumber],
         monthNumber      |-> monthNumber,
         income           |-> income,
         expenditure      |-> expenditure,
         balance          |-> income - expenditure,
         fineCount        |-> IF monthNumber \in DOMAIN monthlyIncome
                              THEN monthlyIncome[monthNumber].count ELSE 0,
         expenditureCount |-> IF monthNumber \in DOMAIN monthlyExpenditure
                              THEN monthlyExpenditure[monthNumber].count ELSE 0]

\* report.reduce((sum, m) => sum + m[field], 0)
RECURSIVE Reduce(_, _)
Reduce(report, field) ==
    IF report = << >> THEN 0 ELSE report[1][field] + Reduce(Tail(report), field)

\* lines 299-303
YearlyTotals(report) ==
    [totalIncome      |-> Reduce(report, "income"),
     totalExpenditure |-> Reduce(report, "expenditure"),
     totalBalance     |-> Reduce(report, "balance")]

\* lines 305-312: the data of the response
MonthlyReportData(g) ==
    [year |-> g.year, monthlyReport |-> g.report, yearlyTotals |-> YearlyTotals(g.report)]

StartGetMonthlyReport(r, m, queries) ==
    /\ Accept(r, m)
    /\ \E q \in queries :
          req' = [req EXCEPT ![r] =
                     [op |-> "report", pc |-> "income", status |-> 0,
                      year |-> ReportYear(q, now), monthlyIncome |-> << >>,
                      report |-> << >>]]
    /\ UNCHANGED << students, expenditures, now, mail >>

GetMonthlyReportReadAndPrune(r) ==
    /\ req[r].op = "report" /\ req[r].pc # "done"
    /\ req' = [req EXCEPT ![r] = [@ EXCEPT !.pc = "done", !.status = 200]]
    /\ expenditures' = SelectSeq(expenditures, LAMBDA e : Matches(e.date, req[r].year))
    /\ UNCHANGED << students, now, mail, served >>

\* lines 253-312: the two aggregations, one await each; the rows, the totals
\* and the response follow the second
GetMonthlyReportRead(r) ==
    /\ req[r].op = "report" /\ req[r].pc # "done"
    /\ LET g == req[r]
       IN  req' = [req EXCEPT ![r] =
              IF g.pc = "income"
              THEN [g EXCEPT !.pc = "expenditure",
                             !.monthlyIncome = MonthlyGroups(Unwind(students), g.year)]
              ELSE [g EXCEPT !.pc = "done", !.status = 200,
                             !.report =
                                 [k \in 1..12 |->
                                     ReportRow(k, g.monthlyIncome,
                                               MonthlyGroups(expenditures, g.year))]]]
    /\ UNCHANGED << students, expenditures, now, mail, served >>

\* bodies that date their entry: the last noon of 2024, the first midnight of
\* 2025, a day of March 2025
DatedFineBodies ==
    { [amount |-> Num(50), reason |-> Undef, type |-> Undef, category |-> Undef,
       date |-> IsoDate(Noon(2024, 12, 31))],
      [amount |-> Num(30), reason |-> Undef, type |-> Undef, category |-> Undef,
       date |-> IsoDate(DateOnly(2025, 1, 1))],
      [amount |-> Num(7), reason |-> Undef, type |-> Undef, category |-> Undef,
       date |-> IsoDate(Noon(2025, 3, 15))] }

\* the last midnight of 2024, and the day of March 2025
DatedExpenditureBodies ==
    { [amount |-> Num(20), description |-> Str("Chairs"), category |-> Undef,
       date |-> IsoDate(DateOnly(2024, 12, 31))],
      [amount |-> Num(9), description |-> Str("Chalk"), category |-> Undef,
       date |-> IsoDate(Noon(2025, 3, 15))] }

(***************************************************************************)
(* The clock, the end of a request, and the specifications                 *)
(***************************************************************************)
MaxTime == 2

Tick ==
    /\ now < MaxTime
    /\ now' = now + 1
    /\ UNCHANGED << students, expenditures, mail, req, served >>

\* the response has been sent and the handler's frame is gone
Return(r) ==
    /\ req[r].pc = "done"
    /\ req' = [req EXCEPT ![r] = Idle]
    /\ UNCHANGED << students, expenditures, now, mail, served >>

FineIds == 1..MaxFines

\* All handlers, interleaved at their awaits.
Next ==
    \/ Tick
    \/ \E r \in Reqs :
          \/ StartUpload(r, Concurrent, RaceFiles)
          \/ UploadFind(r)
          \/ UploadSave(r)
          \/ UploadCreate(r)
          \/ StartAddFine(r, Concurrent, {"p1", "P9"}, FineBodies)
          \/ AddFineFind(r, {RandomScale - 1})
          \/ AddFineSave(r)
          \/ StartMarkFineAsPaid(r, Concurrent, {"p1"}, {1})
          \/ MarkFineAsPaidFind(r)
          \/ MarkFineAsPaidSave(r)
          \/ StartGetStudentFines(r, Concurrent, {"p1"})
          \/ GetStudentFinesFind(r)
          \/ StartAddExpenditure(r, Concurrent, ExpenditureBodies)
          \/ AddExpenditureCreate(r)
          \/ StartUpdateExpenditure(r, Concurrent, ExpenditureIds, UpdateBodies)
          \/ UpdateExpenditureFind(r)
          \/ UpdateExpenditureSave(r)
          \/ StartDeleteExpenditure(r, Concurrent, ExpenditureIds)
          \/ DeleteExpenditure(r)
          \/ StartGetFinancialSummary(r, Concurrent)
          \/ GetFinancialSummaryRead(r)
          \/ Return(r)

Spec == Init /\ [][Next]_vars

\* Ingest, one request at a time: every batch of BatchFiles against every
\* roster the batches and ledger appends produce.
IngestNext ==
    \E r \in Reqs :
       \/ StartUpload(r, OneAtATime, BatchFiles)
       \/ RerunUpload(r)
       \/ UploadFind(r)
       \/ UploadSave(r)
       \/ UploadCreate(r)
       \/ StartAddFine(r, OneAtATime, {"p1"}, { b \in FineBodies : b.amount = Num(50) })
       \/ AddFineFind(r, {0})
       \/ AddFineSave(r)
       \/ Return(r)

IngestSpec == Init /\ [][IngestNext]_vars

\* Header detection and column resolution: every file of ParseFiles, one
\* upload at a time, against every roster the earlier uploads left.
ParseNext ==
    \E r \in Reqs :
       \/ StartUpload(r, OneAtATime, ParseFiles)
       \/ UploadFind(r)
       \/ UploadSave(r)
       \/ UploadCreate(r)
       \/ Return(r)

ParseSpec == Init /\ [][ParseNext]_vars

\* Ledger and aggregation, one request at a time.
LedgerNext ==
    \E r \in Reqs :
       \/ StartUpload(r, OneAtATime, RosterFiles)
       \/ UploadFind(r)
       \/ UploadSave(r)
       \/ UploadCreate(r)
       \/ StartAddFine(r, OneAtATime, {"p1", "P9"}, FineBodies)
       \/ StartAddFine(r, OneAtATime, {"P2"}, { b \in FineBodies : b.amount = Num(50) })
       \/ AddFineFind(r, {0})
       \/ AddFineSave(r)
       \/ StartMarkFineAsPaid(r, OneAtATime, PrnParams, FineIds)
       \/ MarkFineAsPaidFind(r)
       \/ MarkFineAsPaidSave(r)
       \/ StartGetStudentFines(r, OneAtATime, PrnParams)
       \/ GetStudentFinesFind(r)
       \/ StartAddExpenditure(r, OneAtATime, ExpenditureBodies)
       \/ AddExpenditureCreate(r)
       \/ StartGetFinancialSummary(r, OneAtATime)
       \/ GetFinancialSummaryRead(r)
       \/ Return(r)

LedgerSpec == Init /\ [][LedgerNext]_vars

\* Ingest and ledger appends, one request at a time, with the failures of
\* the environment: the file cannot be read, the parser fails, a database
\* operation rejects, the file cannot be removed, the mail is not delivered.
FaultNext ==
    \/ ReceiptEmailSettles
    \/ \E r \in Reqs :
          \/ StartUpload(r, OneAtATime, RaceFiles)
          \/ UploadReadError(r, OneAtATime)
          \/ UploadParseError(r, OneAtATime, RaceFiles)
          \/ UploadFind(r)
          \/ UploadSave(r)
          \/ UploadCreate(r)
          \/ UploadRowThrows(r)
          \/ UnlinkCallback(r)
          \/ StartAddFine(r, OneAtATime, {"p1"}, { b \in FineBodies : b.amount = Num(50) })
          \/ AddFineFind(r, {0})
          \/ AddFineSave(r)
          \/ Return(r)

FaultSpec == Init /\ [][FaultNext]_vars

\* lines 148, 161 and 165: every awaited driver operation settles; it
\* resolves or, as UploadRowThrows has it, rejects
FaultFairSpec ==
    FaultSpec /\ WF_vars(\E r \in Reqs : UploadFind(r) \/ UploadSave(r) \/ UploadCreate(r))

\* the times the server is started at, and the values Math.random gives, for
\* the receipt numbers: days and months of one and of two digits, the least
\* and the greatest random value
ReceiptTimes == { 1, DateOnly(2025, 1, 1), Noon(2025, 3, 5), Noon(2025, 10, 31) }

ReceiptDraws == { 0, 1, RandomScale \div 2, RandomScale - 1 }

ReceiptInit ==
    /\ students = << >>
    /\ expenditures = << >>
    /\ now \in ReceiptTimes
    /\ mail = {}
    /\ req = [r \in Reqs |-> Idle]
    /\ served = 0

\* Ledger appends at those times with those random values, one request at a
\* time.
ReceiptNext ==
    \E r \in Reqs :
       \/ StartUpload(r, OneAtATime, RosterFiles)
       \/ UploadFind(r)
       \/ UploadSave(r)
       \/ UploadCreate(r)
       \/ StartAddFine(r, OneAtATime, {"p1"},
                       { b \in FineBodies : b.amount \in {Num(50), Str("30")} })
       \/ AddFineFind(r, ReceiptDraws)
       \/ AddFineSave(r)
       \/ Return(r)

ReceiptSpec == ReceiptInit /\ [][ReceiptNext]_vars

\* Reports, one request at a time, over ledgers and expenditures dated
\* around the turn of the year.
ReportNext ==
    \E r \in Reqs :
       \/ StartUpload(r, OneAtATime, RosterFiles)
       \/ UploadFind(r)
       \/ UploadSave(r)
       \/ UploadCreate(r)
       \/ StartAddFine(r, OneAtATime, {"p1"}, DatedFineBodies)
       \/ StartAddFine(r, OneAtATime, {"P2"}, { b \in FineBodies : b.amount = Num(50) })
       \/ AddFineFind(r, {0})
       \/ AddFineSave(r)
       \/ StartAddExpenditure(r, OneAtATime, DatedExpenditureBodies)
       \/ AddExpenditureCreate(r)
       \/ StartGetMonthlyReport(r, OneAtATime, YearQueries)
       \/ GetMonthlyReportRead(r)
       \/ StartGetFinancialSummary(r, OneAtATime)
       \/ GetFinancialSummaryRead(r)
       \/ Return(r)

ReportSpec == Init /\ [][ReportNext]_vars

(***************************************************************************)
(* Properties of ingest                                                    *)
(***************************************************************************)
Uploading(r) == req[r].op = "upload"

\* request r takes its save step (the update path of a row)
SaveStep(r) == Uploading(r) /\ req[r].pc = "save" /\ req'[r] # req[r]

\* the rows of upload r already reconciled
RowsDone(r) == 1..(req[r].idx - 1)

\* C1: the update path of a row leaves the ledger of the student it updates
\* as it was: same length, same entries, same order.
C1_UpdateKeepsLedger ==
    [][\A r \in Reqs :
          SaveStep(r) => students'[req[r].doc].fines = students[req[r].doc].fines]_vars

\* an upload has updated, and created nothing, and a student of one of its
\* rows holds a ledger entry
C1_Witness ==
    \E r \in Reqs :
       /\ Uploading(r) /\ req[r].updateCount > 0 /\ req[r].successCount = 0
       /\ \E k \in RowsDone(r), i \in 1..Len(students) :
             /\ students[i].prn = Resolved[req[r].results[k]].prn
             /\ Len(students[i].fines) > 0

HeaderColumns ==
    {"prn number", "student name", "academic year", "semester", "year", "division",
     "roll no", "mobile number", "email id"}

\* the cells of every row under the columns of HeaderLine, read once
Cells == [row \in ParsedRows |-> [c \in HeaderColumns |-> trim(RowGet(row, c))]]

\* the cell of a row under a column of HeaderLine, as the file has it
Cell(row, column) == Cells[row][column]

LacksRequired(row) == Cell(row, "prn number") = "" \/ Cell(row, "student name") = ""

InvalidRows(results) == { k \in 1..Len(results) : LacksRequired(results[k]) }

Answered(r) == Uploading(r) /\ req[r].pc = "done" /\ req[r].status = 200

C3_UpdateOverwrites ==
    [][\A r \in Reqs :
          SaveStep(r) =>
             LET d      == Resolved[req[r].results[req[r].idx]]
                 before == students[req[r].doc]
                 after  == students'[req[r].doc]
             IN  /\ after.name = d.name
                 /\ after.prn = before.prn
                 /\ \A f \in OptionalFields :
                       after[f] = IF d[f] = Undefined THEN before[f] ELSE d[f]]_vars

\* an update whose row had no email has left the student's stored email
C3_Witness ==
    \E r \in Reqs :
       /\ Uploading(r) /\ req[r].updateCount > 0
       /\ \E i \in 1..Len(students) :
             LET d == Resolved[req[r].results[req[r].idx - 1]]
             IN  /\ req[r].idx > 1
                 /\ students[i].prn = d.prn
                 /\ d.email = Undefined /\ d.division = Undefined
                 /\ students[i].email # Undefined /\ students[i].department # Undefined
                 /\ students[i].name = d.name

\* C4: a batch run again on the roster its first run left gives the same
\* roster and creates nothing: every row the first run created or updated is
\* an update of the second run, and the rows in error are the same.
C4_RerunIdempotent ==
    \A r \in Reqs :
       (Answered(r) /\ req[r].rerun) =>
          /\ students = req[r].first.students
          /\ req[r].successCount = 0
          /\ req[r].updateCount = req[r].first.successCount + req[r].first.updateCount
          /\ req[r].errorCount = Len(req[r].results) - req[r].updateCount

\* a second run has answered for a batch whose first run created two students
C4_Witness ==
    \E r \in Reqs :
       /\ Answered(r) /\ req[r].rerun /\ req[r].updateCount > 1
       /\ req[r].first.successCount = 2
       /\ Len(students) > 1

\* C5: no two student documents share a prn.
C5_UniquePrn ==
    \A i, j \in 1..Len(students) : i # j => students[i].prn # students[j].prn

\* an upload lost the race for a new prn: its insert met the unique index
C5_Witness ==
    \E r \in Reqs :
       /\ Uploading(r)
       /\ \E k \in 1..Len(req[r].errors) : req[r].errors[k].error = DuplicateKeyError

\* the rows of upload r that lack identifier or name, among rows lo..hi
Rejected(u, lo, hi) == { k \in lo..hi : LacksRequired(u.results[k]) }

\* C16: in every step of an upload, the rows the loop passes without a
\* lookup are exactly rows without identifier or name: each adds one to
\* errors and one errorDetails entry, the loop stops only at a row that has
\* both or at the end of the batch, and the roster changes only by the write
\* for a row that has both.
C16_InvalidRowSkipped ==
    [][\A r \in Reqs :
          (req'[r].op = "upload" /\ req'[r] # req[r] /\ req'[r].error = "") =>
             LET u       == req'[r]
                 writing == Uploading(r) /\ req[r].pc \in {"save", "create"}
                 lo      == IF ~Uploading(r) \/ req[r].pc = "done" THEN 1
                            ELSE IF writing THEN req[r].idx + 1 ELSE req[r].idx
                 before  == IF lo = 1 THEN 0 ELSE req[r].errorCount
             IN  /\ \A k \in lo..(u.idx - 1) : LacksRequired(u.results[k])
                 /\ u.errorCount = before + Cardinality(Rejected(u, lo, u.idx - 1))
                 /\ Len(u.errors) = u.errorCount
                 /\ \A k \in (before + 1)..Len(u.errors) : u.errors[k].error = MissingFields
                 /\ IF u.pc = "done" THEN u.idx = Len(u.results) + 1
                    ELSE ~LacksRequired(u.results[u.idx])
                 /\ students' # students =>
                       writing /\ ~LacksRequired(req[r].results[req[r].idx])]_vars

\* a batch of three rows has answered: its first row, for P2 with an email
\* and no name, was rejected, the two rows after it were reconciled, and P2
\* has no email
C16_Witness ==
    \E r \in Reqs :
       /\ Answered(r) /\ Len(req[r].results) = 3
       /\ LacksRequired(req[r].results[1])
       /\ Cell(req[r].results[1], "prn number") = "P2"
       /\ Cell(req[r].results[1], "email id") # ""
       /\ req[r].errorCount = 1 /\ req[r].successCount + req[r].updateCount = 2
       /\ \E i \in 1..Len(students) : students[i].prn = "P2" /\ students[i].email = Undefined

\* the column of HeaderLine each stored field is read from
ColumnOf ==
    [name |-> "student name", academicYear |-> "academic year", semester |-> "semester",
     year |-> "year", division |-> "division", rollNo |-> "roll no",
     department |-> "division", email |-> "email id", phone |-> "mobile number"]

\* the identifier a valid row carries
Ids == [row \in ParsedRows |-> toUpperCase(Cell(row, "prn number"))]

IdOf(row) == Ids[row]

\* the valid rows of batch u that carry identifier p, and those of them with
\* a value for field f
RowsFor(u, p) ==
    { k \in 1..Len(u.results) : ~LacksRequired(u.results[k]) /\ IdOf(u.results[k]) = p }

RowsWith(u, p, f) == { k \in RowsFor(u, p) : Cell(u.results[k], ColumnOf[f]) # "" }

Last(K) == CHOOSE k \in K : \A j \in K : j <= k

\* identifiers that several valid rows of batch u carry
Repeated(u) ==
    { p \in { IdOf(u.results[k]) : k \in 1..Len(u.results) \ InvalidRows(u.results) } :
         Cardinality(RowsFor(u, p)) > 1 }

\* the original statement of C20: after a batch, the record of an identifier
\* that several valid rows carry has the field values of the last such row.
C20_LastRowWins ==
    \A r \in Reqs :
       Answered(r) =>
          \A p \in Repeated(req[r]) :
             \E i \in 1..Len(students) :
                /\ students[i].prn = p
                /\ \A f \in DOMAIN ColumnOf :
                      students[i][f] =
                         OrUndefined(Cell(req[r].results[Last(RowsFor(req[r], p))], ColumnOf[f]))

\* C20: an upload looks a row up only when every row before it is counted as
\* new, updated or in error; a row whose identifier an earlier valid row of
\* the batch carries is an update, never a creation; and when the batch has
\* answered, each identifier that several valid rows carry has exactly one
\* record, whose name is that of the last such row and whose optional fields
\* each have the value of the last such row that has one.
C20_SequentialDuplicates ==
    [][\A r \in Reqs :
          (req'[r].op = "upload" /\ req'[r] # req[r] /\ req'[r].error = "") =>
             LET u == req'[r]
             IN  /\ u.successCount + u.updateCount + u.errorCount =
                       IF u.pc = "done" THEN Len(u.results) ELSE u.idx - 1
                 /\ u.pc = "create" =>
                       /\ \A k \in RowsFor(u, IdOf(u.results[u.idx])) : k >= u.idx
                       /\ FindOne(students, IdOf(u.results[u.idx])) = 0
                 /\ (u.pc = "done" /\ u.status = 200) =>
                       \A p \in Repeated(u) :
                          /\ Cardinality({ i \in 1..Len(students') : students'[i].prn = p }) = 1
                          /\ \A i \in 1..Len(students') :
                                students'[i].prn = p =>
                                   /\ students'[i].name =
                                         Cell(u.results[Last(RowsFor(u, p))], "student name")
                                   /\ \A f \in OptionalFields :
                                         RowsWith(u, p, f) # {} =>
                                            students'[i][f] =
                                               Cell(u.results[Last(RowsWith(u, p, f))],
                                                    ColumnOf[f])]_vars

\* a batch of two rows for one new identifier has answered: one new student,
\* one update, the name of the second row and the email of the first
C20_Witness ==
    \E r \in Reqs :
       /\ Answered(r) /\ Len(req[r].results) = 2 /\ ~req[r].rerun
       /\ Repeated(req[r]) = {"P1"}
       /\ req[r].successCount = 1 /\ req[r].updateCount = 1
       /\ Cell(req[r].results[2], "email id") = ""
       /\ \E i \in 1..Len(students) :
             /\ students[i].prn = "P1" /\ students[i].name = "Ravi"
             /\ students[i].email = Cell(req[r].results[1], "email id")

(***************************************************************************)
(* Properties of the ledger                                                *)
(***************************************************************************)
\* the entries stored in the current state, by student and position
Entries ==
    UNION { { << i, k >> : k \in 1..Len(students[i].fines) } : i \in 1..Len(students) }

\* the stored entry at e is still at e in the next state
Kept(e) == e[1] <= Len(students') /\ e[2] <= Len(students'[e[1]].fines)

\* the original statement of C6: of a stored entry, no step changes any
\* field but isPaid.
C6_OnlyIsPaidMutated ==
    [][\A e \in Entries :
          /\ Kept(e)
          /\ [students'[e[1]].fines[e[2]] EXCEPT !.isPaid = students[e[1]].fines[e[2]].isPaid]
               = students[e[1]].fines[e[2]]]_vars

\* C6: a stored entry keeps its position, its amount and its receipt number
\* (and reason, type, category and date) in every step; isPaid and paidDate
\* are the only fields of a stored entry that a step changes.
C6_AmountAndReceiptFixed ==
    [][\A e \in Entries :
          /\ Kept(e)
          /\ students'[e[1]].fines[e[2]].amount = students[e[1]].fines[e[2]].amount
          /\ students'[e[1]].fines[e[2]].receiptNumber = students[e[1]].fines[e[2]].receiptNumber
          /\ [students'[e[1]].fines[e[2]] EXCEPT
                 !.isPaid = students[e[1]].fines[e[2]].isPaid,
                 !.paidDate = students[e[1]].fines[e[2]].paidDate]
               = students[e[1]].fines[e[2]]]_vars

\* markFineAsPaid has answered 200 for an entry appended at an earlier time:
\* the entry's paidDate is later than the time it was appended
C6_Witness ==
    \E r \in Reqs :
       /\ req[r].op = "markPaid" /\ req[r].pc = "done" /\ req[r].status = 200
       /\ LET fine == students[req[r].doc].fines[req[r].fineId]
          IN  /\ fine.amount = 50 /\ fine.isPaid
              /\ fine.paidDate > fine.date

\* amounts that are no positive number: missing, zero, not a number (a
\* string that is none, a boolean), negative
InvalidAmounts == { Undef, Num(0), Str("abc"), Str("0"), Num(0 - 5), Bool(TRUE) }

\* C7: an append whose amount is missing, not a number, zero or negative is
\* answered 400 by its first step, which reads and writes no collection: it
\* is never found waiting on the roster, and never answered 201.
C7_InvalidAmountRefused ==
    \A r \in Reqs :
       (req[r].op = "addFine" /\ req[r].body.amount \in InvalidAmounts) =>
          req[r].pc = "done" /\ req[r].status = 400

Known(prn) == \E i \in 1..Len(students) : students[i].prn = toUpperCase(prn)

\* C8: an append with a valid amount whose identifier matches no student is
\* answered 404 by the step that reads the roster; that step creates no
\* student, appends no entry and sends no receipt.
C8_UnknownStudent ==
    [][\A r \in Reqs :
          (req[r].op = "addFine" /\ req[r].pc = "find" /\ req'[r] # req[r]
             /\ ~Known(req[r].prn)) =>
                /\ req'[r].pc = "done" /\ req'[r].status = 404
                /\ students' = students
                /\ mail' = mail]_vars

\* a 404 for an append while the roster holds another student
C8_Witness ==
    \E r \in Reqs :
       /\ req[r].op = "addFine" /\ req[r].status = 404
       /\ ~Known(req[r].prn)
       /\ students # << >>

\* the amount a body of FineBodies carries, when it is a number
Numeric(body) == body.amount.t = "num" \/ body.amount = Str("30")

AmountSent(body) == IF body.amount = Str("30") THEN 30 ELSE body.amount.num

\* C9: a successful append of a numeric amount builds an entry with the
\* amount sent, isPaid true, paidDate the time of the call and date the date
\* sent or else the time of the call, and its write adds exactly that entry
\* at the end of the student's ledger: the earlier entries, the student's
\* other fields and every other student are as before.
C9_AppendOne ==
    [][\A r \in Reqs :
          /\ (req[r].op = "addFine" /\ req[r].pc = "find" /\ req'[r].pc = "save"
                /\ Numeric(req[r].body)) =>
                LET body == req[r].body
                    p    == req'[r].payment
                IN  /\ p.amount = AmountSent(body)
                    /\ p.isPaid = TRUE
                    /\ p.paidDate = now
                    /\ p.date = IF body.date = Undef THEN now ELSE body.date.at
          /\ (req[r].op = "addFine" /\ req[r].pc = "save" /\ req'[r] # req[r]) =>
                LET i == req[r].doc
                IN  /\ req'[r].status = 201
                    /\ students[i].prn = toUpperCase(req[r].prn)
                    /\ Len(students') = Len(students)
                    /\ Len(students'[i].fines) = Len(students[i].fines) + 1
                    /\ students'[i].fines = students[i].fines \o << req[r].payment >>
                    /\ [students'[i] EXCEPT !.fines = students[i].fines] = students[i]
                    /\ \A j \in 1..Len(students) : j # i => students'[j] = students[j]]_vars

\* a second append has answered 201: the ledger has the earlier entry first
\* and the new one, dated as sent, last
C9_Witness ==
    \E r \in Reqs :
       /\ req[r].op = "addFine" /\ req[r].status = 201
       /\ req[r].body.amount = Str("30")
       /\ LET fines == students[req[r].doc].fines
          IN  /\ Len(fines) = 2
              /\ fines[1].amount = 50
              /\ fines[2].amount = 30 /\ fines[2].isPaid /\ fines[2].date = 0
              /\ fines[2].paidDate = MaxTime

(***************************************************************************)
(* Properties of the aggregation                                           *)
(***************************************************************************)
RECURSIVE SumOf(_)
SumOf(f) ==
    IF DOMAIN f = {} THEN 0
    ELSE LET x == CHOOSE x \in DOMAIN f : TRUE
         IN  f[x] + SumOf([y \in DOMAIN f \ {x} |-> f[y]])

\* sum of amount over every ledger entry of every student
LedgerTotal == SumOf([e \in Entries |-> students[e[1]].fines[e[2]].amount])

\* sum of amount over every expenditure
SpentTotal == SumOf([i \in 1..Len(expenditures) |-> expenditures[i].amount])

\* C10: with no request interleaved, the financial block of the summary has
\* totalIncome the sum of all ledger amounts, totalExpenditure the sum of all
\* expenditure amounts, balance their difference, and status 'surplus' when
\* the balance is at least 0 and 'deficit' otherwise.
C10_FinancialSummary ==
    \A r \in Reqs :
       (req[r].op = "summary" /\ req[r].pc = "done") =>
          /\ req[r].status = 200
          /\ Financial(req[r]).totalIncome = LedgerTotal
          /\ Financial(req[r]).totalExpenditure = SpentTotal
          /\ Financial(req[r]).balance = LedgerTotal - SpentTotal
          /\ Financial(req[r]).status =
                IF LedgerTotal - SpentTotal >= 0 THEN "surplus" ELSE "deficit"

\* 50 and 30 appended to one student, no expenditure
C10_Witness ==
    \E r \in Reqs :
       /\ req[r].op = "summary" /\ req[r].pc = "done"
       /\ Len(expenditures) = 0
       /\ \E i \in 1..Len(students) :
             /\ Len(students[i].fines) = 2
             /\ students[i].fines[1].amount = 50 /\ students[i].fines[2].amount = 30
       /\ Financial(req[r]) = [totalIncome |-> 80, totalExpenditure |-> 0,
                               balance |-> 80, status |-> "surplus"]

(***************************************************************************)
(* Properties of the monthly report                                        *)
(***************************************************************************)
Reported(r) == req[r].op = "report" /\ req[r].pc = "done"

\* the ledger entries, and the expenditure records, dated in month m of year y
FinesOfMonth(y, m) ==
    { e \in Entries : YearOf(students[e[1]].fines[e[2]].date) = y
                      /\ MonthOf(students[e[1]].fines[e[2]].date) = m }

SpentOfMonth(y, m) ==
    { i \in 1..Len(expenditures) : YearOf(expenditures[i].date) = y
                                   /\ MonthOf(expenditures[i].date) = m }

\* C11: with no request interleaved, each month of the report for a year
\* counts exactly the ledger entries and the expenditure records dated in
\* that month of that year, at any time of any day from January 1 to
\* December 31, and the yearly totals are the sums over the entries dated in
\* the year.
C11_ReportCountsWholeYear ==
    \A r \in Reqs :
       Reported(r) =>
          LET data == MonthlyReportData(req[r])
              y    == data.year
          IN  /\ \A m \in 1..12 :
                    /\ data.monthlyReport[m].income =
                          SumOf([e \in FinesOfMonth(y, m) |-> students[e[1]].fines[e[2]].amount])
                    /\ data.monthlyReport[m].fineCount = Cardinality(FinesOfMonth(y, m))
                    /\ data.monthlyReport[m].expenditure =
                          SumOf([i \in SpentOfMonth(y, m) |-> expenditures[i].amount])
                    /\ data.monthlyReport[m].expenditureCount = Cardinality(SpentOfMonth(y, m))
              /\ data.yearlyTotals.totalIncome =
                    SumOf([e \in UNION { FinesOfMonth(y, m) : m \in 1..12 } |->
                              students[e[1]].fines[e[2]].amount])
              /\ data.yearlyTotals.totalExpenditure =
                    SumOf([i \in UNION { SpentOfMonth(y, m) : m \in 1..12 } |->
                              expenditures[i].amount])

\* C12: the report has 12 rows, monthNumber 1..12 in order; a month in which
\* no ledger entry and no expenditure record is dated has income, expenditure,
\* balance and both counts 0; each row's balance is income - expenditure; the
\* yearly income and expenditure are the sums of the 12 rows and the yearly
\* balance is their difference.
C12_TwelveMonths ==
    \A r \in Reqs :
       Reported(r) =>
          LET data   == MonthlyReportData(req[r])
              report == data.monthlyReport
          IN  /\ Len(report) = 12
              /\ \A m \in 1..12 :
                    /\ report[m].monthNumber = m
                    /\ report[m].month = months[m]
                    /\ report[m].balance = report[m].income - report[m].expenditure
                    /\ (FinesOfMonth(data.year, m) = {} /\ SpentOfMonth(data.year, m) = {}) =>
                          /\ report[m].income = 0 /\ report[m].expenditure = 0
                          /\ report[m].balance = 0
                          /\ report[m].fineCount = 0 /\ report[m].expenditureCount = 0
              /\ data.yearlyTotals.totalIncome = SumOf([m \in 1..12 |-> report[m].income])
              /\ data.yearlyTotals.totalExpenditure =
                    SumOf([m \in 1..12 |-> report[m].expenditure])
              /\ data.yearlyTotals.totalBalance =
                    data.yearlyTotals.totalIncome - data.yearlyTotals.totalExpenditure

\* the report of 2025 with income in January, income and expenditure in
\* March, and nothing in the other months
C12_Witness ==
    \E r \in Reqs :
       /\ Reported(r) /\ req[r].year = 2025
       /\ req[r].report[1].income = 30 /\ req[r].report[1].expenditure = 0
       /\ req[r].report[3].income = 7 /\ req[r].report[3].expenditure = 9
       /\ req[r].report[3].balance = 0 - 2
       /\ req[r].report[2].fineCount = 0 /\ req[r].report[12].income = 0
       /\ YearlyTotals(req[r].report).totalBalance = 28

Reading(rec) == rec.op \in {"summary", "report"}

\* C13: no step of getFinancialSummary or getMonthlyReport, from the
\* request's arrival to its response, changes a student, a ledger or an
\* expenditure record.
C13_ReadOnly ==
    [][\A r \in Reqs :
          ((Reading(req[r]) \/ Reading(req'[r])) /\ req'[r] # req[r]) =>
             students' = students /\ expenditures' = expenditures]_vars

\* a report has answered over a roster with ledger entries and expenditures
C13_Witness ==
    \E r \in Reqs :
       /\ Reported(r) /\ req[r].status = 200
       /\ expenditures # << >>
       /\ \E i \in 1..Len(students) : Len(students[i].fines) > 0
       /\ \E k \in 1..Len(expenditures) : ~Matches(expenditures[k].date, req[r].year)

(***************************************************************************)
(* Properties of ingest and of the ledger under failures                   *)
(***************************************************************************)
ParseFailed(rec) == rec.op = "upload" /\ rec.error = "csv parse error"

\* C14: an upload whose parsing fails is answered with one error (not 200, no
\* per-row error) at once: no row has been reconciled or counted, and neither
\* that step nor any later step of the request changes the roster.
C14_ParseFailureAborts ==
    [][\A r \in Reqs :
          (ParseFailed(req'[r]) /\ req'[r] # req[r]) =>
             /\ students' = students
             /\ req'[r].pc = "done" /\ req'[r].status # 200
             /\ req'[r].idx = 1 /\ req'[r].errors = << >>
             /\ req'[r].successCount = 0 /\ req'[r].updateCount = 0
             /\ req'[r].errorCount = 0]_vars

\* parsing failed after a valid row of a student the roster does not hold,
\* while the roster holds another
C14_Witness ==
    \E r \in Reqs :
       /\ ParseFailed(req[r]) /\ students # << >>
       /\ \E k \in 1..Len(req[r].results) :
             /\ ~LacksRequired(req[r].results[k])
             /\ FindOne(students, Resolved[req[r].results[k]].prn) = 0

\* C15: every error a row's catch records for a failed lookup, save or create
\* carries the identifier resolved from a row of the batch already processed,
\* and is counted.
C15_RowErrorsNamed ==
    \A r \in Reqs :
       Uploading(r) =>
          /\ req[r].errorCount = Len(req[r].errors)
          /\ \A k \in 1..Len(req[r].errors) :
                req[r].errors[k].error # MissingFields =>
                   \E j \in RowsDone(r) : req[r].errors[k].prn = req[r].data[j].prn

\* C17: every upload that received a file and has answered has called
\* fs.unlink on it.
C17_FileAlwaysRemoved ==
    \A r \in Reqs :
       (Uploading(r) /\ req[r].pc = "done" /\ req[r].error # NoUpload.error) =>
          req[r].unlink # "none"

\* the ledger holds the entry the notification e was sent for
Persisted(e) ==
    \E i \in 1..Len(students) :
       /\ students[i].prn = e[1]
       /\ e[2] <= Len(students[i].fines)
       /\ students[i].fines[e[2]].receiptNumber = e[3]

\* C18: the append answers 201 in the step that hands the receipt to the
\* mailer, without waiting for it; when the delivery later fails, the step
\* that records the failure changes no student, no ledger and no response,
\* and the entry is still in the ledger.
C18_MailFailureIgnored ==
    [][/\ \A r \in Reqs :
             (req[r].op = "addFine" /\ req[r].pc = "save" /\ req'[r] # req[r]) =>
                /\ req'[r].status = 201
                /\ \E e \in mail' \ mail :
                      e[1] = students[req[r].doc].prn /\ e[4] = "pending"
       /\ \A e \in mail :
             (e[4] = "pending" /\ << e[1], e[2], e[3], "failed, logged" >> \in mail') =>
                /\ students' = students /\ req' = req
                /\ Persisted(e)]_vars

\* a delivery has failed while the response of its append is 201
C18_Witness ==
    \E e \in mail, r \in Reqs :
       /\ e[4] = "failed, logged" /\ Persisted(e)
       /\ req[r].op = "addFine" /\ req[r].status = 201
       /\ students[req[r].doc].prn = e[1]
       /\ Len(students[req[r].doc].fines) = e[2]

\* C19: the receipt number of every ledger entry is "RCP-", the year, month
\* and day of the append call as 4, 2 and 2 decimal digits, "-", and 5
\* decimal digits that read a number from 10000 to 99999.
C19_ReceiptFormat ==
    \A e \in Entries :
       LET fine == students[e[1]].fines[e[2]]
           n    == fine.receiptNumber
       IN  /\ Len(n) = 18
           /\ SubSeq(n, 1, 4) = "RCP-"
           /\ AllDigits(SubSeq(n, 5, 12))
           /\ DigitsValue(SubSeq(n, 5, 8), 0) = YearOf(fine.paidDate)
           /\ DigitsValue(SubSeq(n, 9, 10), 0) = MonthOf(fine.paidDate)
           /\ DigitsValue(SubSeq(n, 11, 12), 0) = DayOf(fine.paidDate)
           /\ CharAt(n, 13) = "-"
           /\ AllDigits(SubSeq(n, 14, 18))
           /\ DigitsValue(SubSeq(n, 14, 18), 0) \in 10000..99999

\* an entry appended on 5 March 2025 with the greatest random value, dated
\* on another day by its body, after an entry with the least random value
C19_Witness ==
    \E e \in Entries :
       /\ e[2] = 2
       /\ students[e[1]].fines[1].receiptNumber = "RCP-20250305-10000"
       /\ students[e[1]].fines[2].receiptNumber = "RCP-20250305-99991"
       /\ students[e[1]].fines[2].date = 0

(***************************************************************************)
(* Properties of the header detection and of the column resolution        *)
(***************************************************************************)
\* the keys mapHeaders gives the columns of HeaderLine, in the order of the
\* line
HeaderKeys ==
    << "prn number", "student name", "academic year", "semester", "year", "division",
       "roll no", "mobile number", "email id" >>

\* the rows of data lines under HeaderLine: each cell under its column's key
ExpectedRows(dataLines) ==
    [k \in 1..Len(dataLines) |->
        [j \in 1..Len(HeaderKeys) |-> << HeaderKeys[j], split(dataLines[k], ",")[j] >>]]

NoisyData == { << FullLine >>, << NameOnlyLine, DivisionLine >> }

\* C21: with 0 to 4 non-blank title lines above the header row, the header
\* row is found, the lines above it are dropped, and every non-blank line
\* below it is a data row; the rows are those of the file without titles.
C21_NoiseLinesDiscarded ==
    \A r \in Reqs :
       Uploading(r) =>
          /\ \A n \in 0..4, ls \in NoisyData :
                req[r].fileContent = TitledFile(Noise(n), "\n", ls) =>
                   /\ req[r].results = ExpectedRows(ls)
                   /\ req[r].results = ParsedFile[FileOf(ls)]
          /\ req[r].fileContent =
                TitledFile(SubSeq(Noise(4), 1, 2) \o << "", "  " >> \o SubSeq(Noise(4), 3, 4),
                           "\r\n", << FullLine, "" >>)
                => req[r].results = ExpectedRows(<< FullLine >>)

\* a file of four title lines, the header row and two data lines has been
\* reconciled: two rows, two students
C21_Witness ==
    \E r \in Reqs :
       /\ Answered(r)
       /\ req[r].fileContent = TitledFile(Noise(4), "\n", << NameOnlyLine, DivisionLine >>)
       /\ Len(req[r].results) = 2
       /\ req[r].successCount + req[r].updateCount = 2
       /\ \E i \in 1..Len(students) : students[i].prn = "P2" /\ students[i].division = "B"

\* the first cell of row k
FirstCell(results, k) == results[k][1][2]

\* every row of the results has its first cell under the key `key`
FirstKey(results, key) == \A k \in 1..Len(results) : results[k][1][1] = key

\* C22: only the first min(5, number of non-blank lines) lines are scanned
\* and the first of them that reads like a header is the header row; when
\* none of them does, also when the header row is the 6th line or a later
\* one, line 0 is the header and no line is dropped.
C22_ScanWindow ==
    \A r \in Reqs :
       Uploading(r) =>
          LET u == req[r]
          IN  /\ \A n \in 0..MaxNoise, ls \in NoisyData :
                    u.fileContent = TitledFile(Noise(n), "\n", ls) =>
                       IF n < 5
                       THEN /\ Len(u.results) = Len(ls)
                            /\ FirstKey(u.results, "prn number")
                       ELSE /\ Len(u.results) = n + Len(ls)
                            /\ FirstKey(u.results, "zeal college page 1")
                            /\ u.results[1] = << << "zeal college page 1", "List of students" >>,
                                                 << "it", "2024-25" >> >>
                            /\ FirstCell(u.results, n) = "PRN Number"
                            /\ \A k \in 1..Len(ls) :
                                  FirstCell(u.results, n + k) = split(ls[k], ",")[1]
              /\ u.fileContent = TitledFile(<< "Student PRN list" >>, "\n", << FullLine >>) =>
                    /\ Len(u.results) = 2
                    /\ FirstKey(u.results, "student prn list")
                    /\ FirstCell(u.results, 1) = "PRN Number"
                    /\ FirstCell(u.results, 2) = "p1"

\* a file whose header row is its 6th line has been answered: the header
\* row and the data line are among its 6 rows, none of which names a student
C22_Witness ==
    \E r \in Reqs :
       /\ Answered(r)
       /\ req[r].fileContent = TitledFile(Noise(5), "\n", << FullLine >>)
       /\ Len(req[r].results) = 6
       /\ req[r].errorCount = 6

\* the field of the student data read from each column of HeaderLine
FieldOfColumn ==
    << "prn", "name", "academicYear", "semester", "year", "division", "rollNo", "phone",
       "email" >>

\* C23: whichever of its accepted spellings a column's header uses, the
\* field read from that column resolves to the same value as under the
\* spelling of HeaderLine, for the same data line.
C23_SpellingsAgree ==
    \A r \in Reqs :
       Uploading(r) =>
          \A j \in 1..Len(Spellings), line \in { FullLine, NameOnlyLine } :
             \A a \in Spellings[j] :
                req[r].fileContent = AliasFile(j, a, line) =>
                   req[r].data[1][FieldOfColumn[j]]
                      = Resolved[ParsedFile[FileOf(<< line >>)][1]][FieldOfColumn[j]]

\* the aliases of the fields that have several, in their declared order
AliasesOf ==
    [prn          |-> << "prn number", "prn", "prnnumber" >>,
     name         |-> << "student name", "name", "studentname" >>,
     academicYear |-> << "academic year", "academicyear" >>,
     rollNo       |-> << "roll no", "rollno", "roll" >>,
     email        |-> << "email id", "email", "emailid" >>,
     phone        |-> << "mobile number", "mobile", "phone" >>]

\* the positions of the row's keys equal to alias a, and of those that
\* contain a or are contained in a
ExactKeys(row, a) == { i \in 1..Len(row) : row[i][1] = a }

PartialKeys(row, a) ==
    { i \in 1..Len(row) : includes(row[i][1], a) \/ includes(a, row[i][1]) }

Least(K) == CHOOSE k \in K : \A j \in K : k <= j

\* the value the stated rule gives: the first alias that matches some key,
\* exactly or by containment, decides; its exact key if there is one, else
\* the first key of the row that matches it by containment
Lookup(row, aliases) ==
    LET hits == { j \in 1..Len(aliases) :
                    ExactKeys(row, aliases[j]) \cup PartialKeys(row, aliases[j]) # {} }
    IN  IF hits = {} THEN Undefined
        ELSE LET a == aliases[Least(hits)]
             IN  IF ExactKeys(row, a) # {}
                 THEN trim(row[Least(ExactKeys(row, a))][2])
                 ELSE trim(row[Least(PartialKeys(row, a))][2])

\* the rule applied to every row of every file, once
Lookups == [row \in ParsedRows |-> [f \in DOMAIN AliasesOf |-> Lookup(row, AliasesOf[f])]]

\* C27: a field is resolved by its aliases in declared order; an alias
\* matches by its exact key first, else by the first key of the row, in the
\* row's order, that contains it or is contained in it; a later alias counts
\* only when no earlier one matched any key; when none matches the field is
\* undefined, and the row is processed without an error of the handler.
C27_AliasOrder ==
    \A r \in Reqs :
       Uploading(r) =>
          LET u == req[r]
          IN  /\ u.error = ""
              /\ Len(u.data) = Len(u.results)
              /\ \A k \in 1..Len(u.results) :
                    LET v == Lookups[u.results[k]]
                        d == u.data[k]
                    IN  /\ d.prn = IF v.prn = Undefined THEN Undefined ELSE toUpperCase(v.prn)
                        /\ d.name = v.name
                        /\ \A f \in {"academicYear", "rollNo", "email", "phone"} :
                              d[f] = IF v[f] = Undefined \/ v[f] = "" THEN Undefined ELSE v[f]

\* the upload of a file whose e-mail column is headed EmailID has the
\* address, found by the second alias through containment, and the roster
\* holds the README's student, whose file has no column for the roll number
C27_Witness ==
    \E r \in Reqs :
       /\ Uploading(r)
       /\ req[r].fileContent = AliasFile(9, "EmailID", FullLine)
       /\ ExactKeys(req[r].results[1], "email id") \cup PartialKeys(req[r].results[1], "email id") = {}
       /\ ExactKeys(req[r].results[1], "email") = {}
       /\ req[r].data[1].email = "asha@zcoer.in"
       /\ \E i \in 1..Len(students) :
             /\ students[i].prn = "P7"
             /\ students[i].rollNo = Undefined /\ students[i].email = "m@zcoer.in"

(***************************************************************************)
(* Properties of interleaved requests                                      *)
(***************************************************************************)
\* request r writes the entry it built
AppendStep(r) == req[r].op = "addFine" /\ req[r].pc = "save" /\ req'[r] # req[r]

\* C24 as stated: of two interleaved appends the later save stores the record
\* as its own call read it plus its entry, so the stored ledger has as many
\* entries as that call counted.
C24_LastWriteWins ==
    [][\A r \in Reqs :
          AppendStep(r) => Len(students'[req[r].doc].fines) = req[r].paymentCount]_vars

\* C24, amended: an append whose student received another entry between its
\* read and its save is not rejected, answers 201, and adds its entry after
\* the entries stored meanwhile, all of which stay.
C24_BothAppendsKept ==
    [][\A r \in Reqs :
          (AppendStep(r) /\ Len(students[req[r].doc].fines) >= req[r].paymentCount) =>
             LET before == students[req[r].doc].fines
                 after  == students'[req[r].doc].fines
             IN  /\ req'[r].status = 201
                 /\ Len(after) = Len(before) + 1
                 /\ Len(after) > req[r].paymentCount
                 /\ \A k \in 1..Len(before) : after[k] = before[k]
                 /\ after[Len(after)] = req[r].payment]_vars

\* two appends that both read the empty ledger of one student have both
\* answered 201 and the ledger holds the entries of both
C24_Witness ==
    \E r, q \in Reqs :
       /\ r # q
       /\ req[r].op = "addFine" /\ req[r].status = 201 /\ req[r].paymentCount = 1
       /\ req[q].op = "addFine" /\ req[q].status = 201 /\ req[q].paymentCount = 1
       /\ req[q].doc = req[r].doc
       /\ LET fines == students[req[r].doc].fines
          IN  /\ Len(fines) = 2
              /\ fines[1] = req[q].payment
              /\ fines[2] = req[r].payment

\* C28: when ledger entries were appended to a student between the moment
\* an ingest row loaded that student's record and the moment the row saves
\* it, the save leaves the stored ledger as it is: the appended entries are
\* still there, after the entries the row had loaded.
C28_AppendSurvivesIngestSave ==
    [][\A r \in Reqs :
          (SaveStep(r) /\ req[r].docFines < Len(students[req[r].doc].fines)) =>
             LET before == students[req[r].doc].fines
                 after  == students'[req[r].doc].fines
             IN  /\ Len(after) = Len(before)
                 /\ Len(after) > req[r].docFines
                 /\ \A k \in 1..Len(before) : after[k] = before[k]
                 /\ req'[r].updateCount = req[r].updateCount + 1]_vars

\* an ingest row holds a record it loaded with an empty ledger and has yet
\* to save it; an append to the same student, which read the ledger empty as
\* well, has answered 201 meanwhile and its entry is stored
C28_Witness ==
    \E r, q \in Reqs :
       /\ Uploading(r) /\ req[r].pc = "save" /\ req[r].docFines = 0
       /\ req[q].op = "addFine" /\ req[q].status = 201 /\ req[q].paymentCount = 1
       /\ req[q].doc = req[r].doc
       /\ students[req[r].doc].fines = << req[q].payment >>

(***************************************************************************)
(* Properties of a batch in progress                                       *)
(***************************************************************************)
\* request r, in its row loop, takes a step
RowStep(r) ==
    Uploading(r) /\ req[r].pc \in {"find", "save", "create"} /\ req'[r] # req[r]

\* C25 as stated: at every point of a batch every valid row before the
\* current one is committed, so that the rows persisted are a prefix of the
\* valid rows.
C25_CommittedPrefix ==
    \A r \in Reqs :
       (Uploading(r) /\ req[r].error = "") =>
          \A k \in RowsDone(r) :
             ~LacksRequired(req[r].results[k]) =>
                \E i \in 1..Len(students) : students[i].prn = IdOf(req[r].results[k])

\* C25, amended: the rows are taken one by one in file order; every row
\* before the current one is counted as created, updated or in error; a
\* step writes at most the one record of the current row; a row whose
\* persistence fails is recorded and leaves the roster as it is; and no step
\* removes or reverts a record written before.
C25_RowByRow ==
    [][\A r \in Reqs :
          RowStep(r) =>
             LET u  == req[r]
                 v  == req'[r]
                 id == IdOf(u.results[u.idx])
             IN  /\ v.op = "upload" /\ v.results = u.results
                 /\ v.idx >= u.idx
                 /\ v.successCount + v.updateCount + v.errorCount = v.idx - 1
                 /\ Len(students') >= Len(students)
                 /\ \A j \in 1..Len(students) :
                       \/ students'[j] = students[j]
                       \/ /\ u.pc = "save" /\ j = u.doc /\ students[j].prn = id
                          /\ students'[j].prn = id
                          /\ v.updateCount = u.updateCount + 1
                 /\ \/ Len(students') = Len(students)
                    \/ /\ u.pc = "create" /\ Len(students') = Len(students) + 1
                       /\ students'[Len(students')].prn = id
                       /\ v.successCount = u.successCount + 1
                 /\ (v.successCount = u.successCount /\ v.updateCount = u.updateCount)
                       => students' = students]_vars

\* a batch of two valid rows has answered: the first row's persistence
\* failed and is in errorDetails, the second row created the student
C25_Witness ==
    \E r \in Reqs :
       /\ Answered(r) /\ Len(req[r].results) = 2
       /\ ~LacksRequired(req[r].results[1]) /\ ~LacksRequired(req[r].results[2])
       /\ req[r].errorCount = 1 /\ req[r].errors[1].error = "MongoNetworkError"
       /\ req[r].successCount = 1
       /\ Len(students) = 1 /\ students[1].name = Cell(req[r].results[2], "student name")

\* the errorDetails entry a row without identifier or name gets
RejectedEntry(row) ==
    [prn   |-> IF Cell(row, "prn number") = "" THEN "N/A" ELSE IdOf(row),
     error |-> MissingFields]

\* C26: every upload whose file parses is answered in the end, however many
\* of its rows fail; the answer has totalRecords = newStudents +
\* updatedStudents + errors and one errorDetails entry for each error
\* counted, none when there is no error; the entries are added at the end of
\* the list as the rows are passed, so they stand in the order of their rows.
C26_BatchCompletes ==
    /\ [](\A r \in Reqs :
            Answered(r) =>
               LET data == UploadData(req[r])
               IN  /\ data.totalRecords
                        = data.newStudents + data.updatedStudents + data.errors
                   /\ Len(data.errorDetails) = data.errors
                   /\ data.errors = 0 => data.errorDetails = << >>)
    /\ [][\A r \in Reqs :
            (req'[r].op = "upload" /\ req'[r] # req[r] /\ req'[r].error = ""
                /\ ~(Uploading(r) /\ req[r].pc = "done")) =>
               LET u      == req[r]
                   v      == req'[r]
                   inLoop == Uploading(r)
                   thrown == inLoop /\ v.idx > u.idx
                                /\ v.successCount + v.updateCount
                                     = u.successCount + u.updateCount
                   lo     == IF inLoop THEN u.idx ELSE 1
                   old    == IF inLoop THEN u.errors ELSE << >>
                   failed == { k \in lo..(v.idx - 1) :
                                  LacksRequired(v.results[k]) \/ (thrown /\ k = u.idx) }
               IN  /\ Len(v.errors) = Len(old) + Cardinality(failed)
                   /\ SubSeq(v.errors, 1, Len(old)) = old
                   /\ \A k \in failed :
                         LET e == v.errors[Len(old) + Cardinality({ j \in failed : j <= k })]
                         IN  IF thrown /\ k = u.idx
                             THEN e.error # MissingFields
                             ELSE e = RejectedEntry(v.results[k])]_vars
    /\ \A r \in Reqs : (Uploading(r) /\ req[r].pc # "done") ~> Answered(r)

\* a batch of two rows has answered with two errors and nothing persisted:
\* the write for its first row failed, its second row has no name
C26_Witness ==
    \E r \in Reqs :
       /\ Answered(r)
       /\ UploadData(req[r]).totalRecords = 2 /\ UploadData(req[r]).errors = 2
       /\ UploadData(req[r]).newStudents = 0 /\ UploadData(req[r]).updatedStudents = 0
       /\ UploadData(req[r]).errorDetails[1].error = "MongoNetworkError"
       /\ UploadData(req[r]).errorDetails[2] = [prn |-> "P2", error |-> MissingFields]
       /\ students = << >>

(***************************************************************************)
(* Properties of the summary among writes                                  *)
(***************************************************************************)
\* the seven figures of a summary, in the order they are read
Figures(g) ==
    << g.totalIncome, g.totalExpenditure, g.totalStudents, g.studentsWithFines,
       g.totalFines, g.totalExpenditures, g.expenditureByCategory >>

\* what each figure is for the roster and the expenditures as they are now
FiguresNow ==
    << LedgerTotal, SpentTotal, Len(students),
       Cardinality({ i \in 1..Len(students) : students[i].fines # << >> }),
       Cardinality(Entries), Len(expenditures),
       [c \in { expenditures[i].category : i \in 1..Len(expenditures) } |->
           SumOf([i \in { j \in 1..Len(expenditures) : expenditures[j].category = c } |->
                     expenditures[i].amount])] >>

\* C29 as stated: the figures of an answered summary are those of one state
\* of the roster and the expenditures; so the category totals add up to
\* totalExpenditure, there are expenditures iff they have a total, and there
\* are ledger entries iff some student has one and iff they have a total.
C29_OneState ==
    \A r \in Reqs :
       (req[r].op = "summary" /\ req[r].status = 200) =>
          LET g == req[r]
          IN  /\ SumOf(g.expenditureByCategory) = g.totalExpenditure
              /\ (g.totalExpenditures = 0) = (g.totalExpenditure = 0)
              /\ (g.totalFines = 0) = (g.studentsWithFines = 0)
              /\ (g.totalFines = 0) = (g.totalIncome = 0)
              /\ g.studentsWithFines <= g.totalStudents

\* C29, amended: each figure is that of the roster or the expenditures at
\* the moment of its own read, and a figure once read is not read again;
\* so the figures describe one state when nothing is written between the
\* first read and the last, and may describe up to seven states otherwise.
C29_EachReadCurrent ==
    [][\A r \in Reqs :
          (req[r].op = "summary" /\ req[r].pc # "done" /\ req'[r] # req[r]) =>
             LET k == req[r].step
             IN  /\ req'[r].op = "summary" /\ req'[r].step = k + 1
                 /\ Figures(req'[r])[k] = FiguresNow[k]
                 /\ \A j \in 1..7 : j # k => Figures(req'[r])[j] = Figures(req[r])[j]
                 /\ (req'[r].status = 200) = (k = 7)
                 /\ (\A j \in 1..(k - 1) : Figures(req[r])[j] = FiguresNow[j])
                       => \A j \in 1..k : Figures(req'[r])[j] = FiguresNow'[j]]_vars

\* a summary has answered with a total expenditure that its category totals
\* do not add up to, while its count of expenditures and its category
\* totals are those of the expenditures stored now
C29_Witness ==
    \E r \in Reqs :
       /\ req[r].op = "summary" /\ req[r].status = 200
       /\ SumOf(req[r].expenditureByCategory) # req[r].totalExpenditure
       /\ req[r].expenditureByCategory = FiguresNow[7]
       /\ req[r].totalExpenditures = Len(expenditures)
       /\ Len(expenditures) > 0

(***************************************************************************)
(* Properties of the stored amounts                                        *)
(***************************************************************************)
\* every ledger entry and every expenditure of the next state has an amount
\* above 0
AmountsPositive ==
    /\ \A i \in 1..Len(students') :
          \A k \in 1..Len(students'[i].fines) : students'[i].fines[k].amount > 0
    /\ \A j \in 1..Len(expenditures') : expenditures'[j].amount > 0

\* C30: whatever requests are served, every stored ledger entry and every
\* stored expenditure has an amount above 0; and an update of an expenditure
\* whose amount is zero, negative or not a number is refused when its record
\* has been read, before any write, and the stored record stays as it is.
C30_AmountsPositive ==
    [][/\ AmountsPositive
       /\ \A r \in Reqs :
             (req[r].op = "updateExp" /\ req[r].pc = "find" /\ req'[r].pc # "find"
                /\ req[r].body.amount \in InvalidAmounts \ {Undef}) =>
                /\ req'[r].pc = "done" /\ req'[r].status \in {400, 404}
                /\ expenditures' = expenditures]_vars
====
